---- MODULE Spec2Model ----
(***************************************************************************)
(* Model of the NCDEX scheduler utility's incremental synchronisation      *)
(* pipeline: the checkpoint store (utils/syncTracker.js), the four sync    *)
(* tasks (Members, ComplianceOfficers, Cases, Auditors) and the paginated  *)
(* fetch they drive.                                                       *)
(*                                                                         *)
(* Spec           : successive invocations of one entity's sync task, with *)
(*                  environment faults.                                    *)
(* SpecConcurrent : invocations of the tasks that overlap in time against  *)
(*                  one shared checkpoint document.                        *)
(* SpecStore      : sequences of checkpoint-store calls starting from an   *)
(*                  empty document.                                        *)
(***************************************************************************)
EXTENDS Integers, Sequences, FiniteSets, TLC

VARIABLES
    store,        \* sync_records of data/integration_last_sync.json
    now,          \* the wall clock read by new Date()
    source,       \* per entity: number of Source records (Null: not yet queried)
    run,          \* per invocation slot: the state of the task running in it
    runsStarted,  \* number of task invocations started so far
    faultsLeft,   \* transport and file-system faults the environment may still inject
    overlap,      \* whether the scheduler lets invocations overlap in time
    admin,        \* SpecStore: the last checkpoint-store call and its outcome
    call          \* the library call under study (transform, process, fetchAllRecords)

vars == <<store, now, source, run, runsStarted, faultsLeft, overlap, admin, call>>

(***************************************************************************)
(* Bounds of the model.                                                    *)
(***************************************************************************)
NumSlots == 2      \* concurrent task invocations
MaxRuns == 3       \* task invocations per behaviour
MaxTime == 3       \* last clock value
MaxSrc == 3        \* Source records per entity
PageSize == 2      \* records the Source returns per page
MaxMissing == 1    \* entities whose checkpoint was never created
MaxFaults == 1     \* environment faults per behaviour
MaxRecords == 2    \* SpecStore: checkpoints in the document

Slots == 1..NumSlots

\* Time line: an earlier sync at .prior, every Source record last modified at
\* .modified, the clock starts at .start.
Timeline == [prior |-> 0, modified |-> 1, start |-> 2]

(***************************************************************************)
(* JavaScript values.                                                      *)
(***************************************************************************)
Null == -1
Undefined == -2
UndefinedStr == "undefined"

Truthy(v) == v \notin {Null, Undefined}

Min(a, b) == IF a <= b THEN a ELSE b

(***************************************************************************)
(* The four sync tasks and their per-task literals.                        *)
(***************************************************************************)
Tasks == {"Members", "ComplianceOfficers", "Cases", "Auditors"}

TaskOrder == <<"Members", "ComplianceOfficers", "Cases", "Auditors">>

sugarCRMModule(t) ==
    CASE t = "Members" -> "Accounts"
      [] t = "ComplianceOfficers" -> "comp_Compliance_Officers"
      [] t = "Cases" -> "Cases"
      [] t = "Auditors" -> "aud_Auditor"

\* Error messages
NoError == ""
ErrFetch == "SugarCRM API call failed"
ErrPush == "Portal API call failed"
ErrNotFound == "Sync record not found for identifier"
ErrExists == "Sync record already exists"
ErrSave == "Failed to save sync data"
ErrLoad == "Failed to load sync data"
ErrReference == "accountsWithOfficers is not defined"
ErrNoRecord == "No sync record found for Auditors module"

FetchLimit == 10000

(***************************************************************************)
(* Checkpoint store (syncTracker).                                         *)
(***************************************************************************)
NoMetadata ==
    [records_fetched |-> Undefined, sugarcrm_module |-> UndefinedStr,
     sync_duration |-> Undefined, last_sync_date_used |-> Undefined,
     error_message |-> UndefinedStr, failed_at |-> Undefined]

\* What getSyncRecord returns when nothing resolves.
NullRecord ==
    [module_name |-> "null", integration_name |-> "null", direction |-> "null",
     endpoint |-> "null", last_sync_at |-> Null, updated_at |-> Null,
     status |-> "null", metadata |-> NoMetadata]

\* An updateData object with no key set.
NoUpdate ==
    [status |-> UndefinedStr, last_sync_at |-> Undefined,
     updated_at |-> Undefined, metadata |-> NoMetadata]

Resolves(record, identifier) ==
    record.module_name = identifier \/ record.integration_name = identifier

\* A lookup that falls back on the first record when nothing matches.  Not
\* what the code does: the contrast for findIndex below.
findIndex_OrFirst(records, identifier) ==
    IF \E i \in DOMAIN records : Resolves(records[i], identifier)
    THEN CHOOSE i \in DOMAIN records :
            /\ Resolves(records[i], identifier)
            /\ \A j \in DOMAIN records : Resolves(records[j], identifier) => i <= j
    ELSE IF records = <<>> THEN 0 ELSE 1

\* Array.prototype.findIndex, 1-based; 0 when nothing matches.
findIndex(records, identifier) ==
    IF \E i \in DOMAIN records : Resolves(records[i], identifier)
    THEN CHOOSE i \in DOMAIN records :
            /\ Resolves(records[i], identifier)
            /\ \A j \in DOMAIN records : Resolves(records[j], identifier) => i <= j
    ELSE 0

getSyncRecord(records, identifier) ==
    IF findIndex(records, identifier) = 0 THEN NullRecord
    ELSE records[findIndex(records, identifier)]

\* { ...record, ...updateData, updated_at: now,
\*   last_sync_at: updateData.last_sync_at || record.last_sync_at }
mergeRecord_SpreadLast(record, updateData, t) ==
    [record EXCEPT
        !.status = IF updateData.status = UndefinedStr THEN @ ELSE updateData.status,
        !.metadata = IF updateData.metadata = NoMetadata THEN @ ELSE updateData.metadata,
        !.updated_at = IF updateData.updated_at = Undefined THEN t
                       ELSE updateData.updated_at,
        !.last_sync_at = IF Truthy(updateData.last_sync_at)
                         THEN updateData.last_sync_at ELSE @]

mergeRecord(record, updateData, t) ==
    [record EXCEPT
        !.status = IF updateData.status = UndefinedStr THEN @ ELSE updateData.status,
        !.metadata = IF updateData.metadata = NoMetadata THEN @ ELSE updateData.metadata,
        !.updated_at = t,
        !.last_sync_at = IF Truthy(updateData.last_sync_at)
                         THEN updateData.last_sync_at ELSE @]

\* The document updateSyncRecord hands to saveSyncData (the identifier resolves).
updatedDocument(records, identifier, updateData, t) ==
    [records EXCEPT ![findIndex(records, identifier)] = mergeRecord(@, updateData, t)]

\* The record createSyncRecord appends.
newRecord(recordData, t) ==
    [module_name |-> recordData.module_name,
     integration_name |-> recordData.integration_name,
     direction |-> recordData.direction,
     endpoint |-> IF recordData.endpoint = UndefinedStr THEN "null" ELSE recordData.endpoint,
     last_sync_at |-> Null,
     updated_at |-> t,
     status |-> IF recordData.status = UndefinedStr THEN "pending" ELSE recordData.status,
     metadata |-> NoMetadata]

createExists(records, recordData) ==
    \E i \in DOMAIN records :
        \/ records[i].module_name = recordData.module_name
        \/ records[i].integration_name = recordData.integration_name

\* Array.prototype.splice(index, 1)
splice(records, index) ==
    [i \in 1..(Len(records) - 1) |-> IF i < index THEN records[i] ELSE records[i + 1]]

\* A reset that leaves checkpoints that never failed alone.  Not what the code
\* does: the contrast for resetRecords below.
resetRecords_FailedOnly(records, t) ==
    [i \in DOMAIN records |->
        IF records[i].status = "failed"
        THEN [records[i] EXCEPT !.status = "pending", !.last_sync_at = Null,
                                !.updated_at = t]
        ELSE [records[i] EXCEPT !.updated_at = t]]

resetRecords(records, t) ==
    [i \in DOMAIN records |->
        [records[i] EXCEPT !.status = "pending", !.last_sync_at = Null, !.updated_at = t]]

\* A store that merged record by record, keeping whichever copy was updated
\* last.  Not what the code does: the contrast for saveSyncData below.
saveSyncData_KeepNewer(file, syncData) ==
    [i \in DOMAIN syncData |->
        IF i \in DOMAIN file /\ file[i].updated_at > syncData[i].updated_at
        THEN file[i] ELSE syncData[i]]

\* The file's content after writeFile of syncData over the current content:
\* the whole document is replaced.
saveSyncData(file, syncData) == syncData


(***************************************************************************)
(* Source (SugarCRM) as the tasks see it through sugarCRMPost.             *)
(***************************************************************************)
\* Whether the task's filter list carries date_modified >= lastSyncDate.
dateFilter(r) == IF r.task = "Auditors" THEN TRUE ELSE Truthy(r.lastSyncDate)

\* The entity's static filters, by the field each one tests.
staticFilters(task) ==
    CASE task = "ComplianceOfficers" -> <<"status_c">>
      [] task = "Members" -> <<"tm_id_c", "tm_id_c", "acc_type_c">>
      [] OTHER -> <<>>

\* The filter list the task hands to fetchAllRecords.
filters(task, lastSyncDate) ==
    (IF task = "Auditors" \/ Truthy(lastSyncDate) THEN <<"date_modified">> ELSE <<>>)
        \o staticFilters(task)

\* The ids of the n Source records of the entity that satisfy the filter.
matching(r, n) ==
    SelectSeq([i \in 1..n |-> i],
              LAMBDA id : ~dateFilter(r) \/ Timeline.modified >= r.lastSyncDate)

\* response.data of one page request at the given offset.
sourcePage(matches, offset) ==
    [records |-> SubSeq(matches, offset + 1, Min(offset + PageSize, Len(matches))),
     has_more |-> offset + PageSize < Len(matches),
     next_offset |-> IF offset + PageSize < Len(matches) THEN offset + PageSize ELSE -1]

(***************************************************************************)
(* One task invocation.                                                    *)
(***************************************************************************)
IdleRun ==
    [task |-> "none", pc |-> "idle", seq |-> 0, solo |-> TRUE,
     before |-> NullRecord, after |-> NullRecord,
     ts |-> Undefined, lastSyncDate |-> Undefined,
     offset |-> 0, records |-> <<>>, total_fetched |-> 0, pages |-> 0,
     fetchDone |-> FALSE, processed |-> <<>>, pushes |-> 0, pushOk |-> FALSE,
     error |-> NoError, doc |-> <<>>, saved |-> FALSE, commitFailed |-> FALSE,
     faults |-> 0, result |-> "pending", raised |-> NoError, unhandled |-> FALSE,
     ledger |-> "none", pushed |-> <<>>, filters |-> <<>>]

Active(r) == r.pc \notin {"idle", "done"}

Done(s) == run[s].pc = "done"

\* An environment fault (transport or file-system error) hit this run.
Fault(r) == [r EXCEPT !.faults = @ + 1]

\* The task's promise settles (or, for a detached update, its last step ends).
Finish(r, res, err, records) ==
    [r EXCEPT !.pc = "done", !.result = res, !.raised = err, !.doc = <<>>,
              !.after = getSyncRecord(records, r.task)]

\* A task that went on with the pages fetched before the failing request.
OnError_KeepPartial(r, err, records) ==
    IF err = ErrFetch
    THEN [r EXCEPT !.error = err, !.pc = "process"]
    ELSE IF r.task = "Auditors"
    THEN Finish([r EXCEPT !.error = err], "raised", err, records)
    ELSE [r EXCEPT !.error = err, !.pc = "failLoad"]

\* Control enters the task's catch block with error err.
OnError(r, err, records) ==
    IF r.task = "Auditors"
    THEN Finish([r EXCEPT !.error = err], "raised", err, records)
    ELSE [r EXCEPT !.error = err, !.pc = "failLoad"]

\* updateData of the success-path updateSyncRecord call.
successUpdate(r) ==
    IF r.task = "Auditors"
    THEN [NoUpdate EXCEPT !.status = "completed", !.last_sync_at = r.ts,
                          !.updated_at = r.ts]
    ELSE [NoUpdate EXCEPT !.status = "success", !.last_sync_at = r.ts,
            !.metadata = [NoMetadata EXCEPT
                !.records_fetched = r.total_fetched,
                !.sugarcrm_module = sugarCRMModule(r.task),
                !.sync_duration = r.ts,
                !.last_sync_date_used = r.lastSyncDate]]

\* updateData of the catch block's updateSyncRecord call.
failureUpdate(r, t) ==
    [NoUpdate EXCEPT
        !.status = "failed",
        !.last_sync_at = IF r.task = "Members" THEN Undefined ELSE t,
        !.metadata = [NoMetadata EXCEPT
            !.error_message = r.error,
            !.failed_at = t,
            !.sugarcrm_module = sugarCRMModule(r.task)]]

\* The success-path updateSyncRecord call failed with err.
CommitError(r, err, records) ==
    IF r.task = "Auditors"
    THEN Finish([r EXCEPT !.commitFailed = TRUE, !.unhandled = TRUE],
                r.result, r.raised, records)
    ELSE OnError([r EXCEPT !.commitFailed = TRUE], err, records)

\* The catch block's updateSyncRecord call failed with err.
FailureUpdateError(r, err, records) ==
    IF r.task = "Members"
    THEN Finish(r, "raised", r.error, records)
    ELSE Finish(r, "raised", err, records)

\* The outcomes the environment can give a request: TRUE (it succeeds) or,
\* while faults are left, FALSE (transport or file-system error).
Outcomes == IF faultsLeft > 0 THEN BOOLEAN ELSE {TRUE}

Spend(ok) == faultsLeft' = IF ok THEN faultsLeft ELSE faultsLeft - 1

\* The invocation of entity t's task at its first statement, at time t0.
newRun(t, seq, solo, records, t0) ==
    [IdleRun EXCEPT
        !.task = t,
        !.pc = "getSyncRecord",
        !.seq = seq,
        !.solo = solo,
        !.before = getSyncRecord(records, t),
        !.after = getSyncRecord(records, t),
        !.ts = IF t = "Members" THEN t0 ELSE Undefined]

\* `node index.js <task>` is invoked for entity t in the free slot s.  Without
\* overlap the scheduler starts an invocation only when the previous one has
\* ended, and re-runs the same entity.
StartRun(s, t) ==
    /\ run[s].pc = "idle"
    /\ \A o \in Slots : o < s => run[o].pc # "idle"
    /\ runsStarted < MaxRuns
    /\ overlap \/ /\ \A o \in Slots : ~Active(run[o])
                  /\ \A o \in Slots : run[o].task \in {"none", t}
    /\ runsStarted' = runsStarted + 1
    /\ run' = [x \in Slots |->
                IF x = s
                THEN newRun(t, runsStarted + 1,
                            \A o \in Slots \ {s} : ~Active(run[o]), store, now)
                ELSE IF Active(run[x]) THEN [run[x] EXCEPT !.solo = FALSE]
                ELSE run[x]]
    /\ UNCHANGED <<store, now, source, faultsLeft, overlap, admin, call>>

GetSyncRecordStep(s) ==
    LET r == run[s]
        rec == getSyncRecord(store, r.task)
    IN
    /\ r.pc = "getSyncRecord"
    /\ \E ok \in Outcomes :
        /\ Spend(ok)
        /\ run' = [run EXCEPT ![s] =
            IF ~ok THEN OnError(Fault(r), ErrLoad, store)
            ELSE IF r.task = "Auditors" /\ rec = NullRecord
            THEN OnError(r, ErrNoRecord, store)
            ELSE LET lastSyncDate ==
                        IF r.task = "Members"
                        THEN (IF Truthy(rec.last_sync_at) THEN rec.last_sync_at ELSE Null)
                        ELSE IF rec = NullRecord THEN Undefined
                        ELSE rec.last_sync_at
                 IN [r EXCEPT
                        !.pc = "fetch",
                        !.lastSyncDate = lastSyncDate,
                        !.filters = filters(r.task, lastSyncDate)]]
    /\ UNCHANGED <<store, now, source, runsStarted, overlap, admin>>

GetSyncRecord(s) == GetSyncRecordStep(s) /\ UNCHANGED call

\* A task that goes on to transform and push as soon as a page held records.
AfterPage_FirstPageOnly(r, page, records) ==
    LET r2 == [r EXCEPT !.records = @ \o page.records,
                        !.total_fetched = @ + Len(page.records),
                        !.offset = page.next_offset,
                        !.pages = @ + 1]
    IN
    IF Len(r2.records) # 0 THEN [r2 EXCEPT !.pc = "process"]
    ELSE IF page.has_more THEN r2
    ELSE IF r.task = "Auditors"
    THEN Finish([r2 EXCEPT !.fetchDone = TRUE], "ok", NoError, records)
    ELSE [r2 EXCEPT !.fetchDone = TRUE, !.pc = "commitLoad"]

\* One iteration of fetchAllRecords' loop, and what the task does when it exits.
AfterPage(r, page, records) ==
    LET r2 == [r EXCEPT !.records = @ \o page.records,
                        !.total_fetched = @ + Len(page.records),
                        !.offset = page.next_offset,
                        !.pages = @ + 1]
    IN
    IF page.has_more /\ ~(r2.total_fetched > FetchLimit) THEN r2
    ELSE IF Len(r2.records) # 0 THEN [r2 EXCEPT !.fetchDone = TRUE, !.pc = "process"]
    ELSE IF r.task = "Auditors"
    THEN Finish([r2 EXCEPT !.fetchDone = TRUE], "ok", NoError, records)
    ELSE [r2 EXCEPT !.fetchDone = TRUE, !.pc = "commitLoad"]

FetchPage(s) ==
    LET r == run[s] IN
    /\ r.pc = "fetch"
    /\ \E ok \in Outcomes :
        /\ Spend(ok)
        /\ IF ~ok
           THEN /\ run' = [run EXCEPT ![s] = OnError(Fault(r), ErrFetch, store)]
                /\ source' = source
           ELSE \E n \in (IF source[r.task] = Null THEN 0..MaxSrc ELSE {source[r.task]}) :
                /\ source' = [source EXCEPT ![r.task] = n]
                /\ run' = [run EXCEPT ![s] =
                        AfterPage(r, sourcePage(matching(r, n), r.offset), store)]
    /\ UNCHANGED <<store, now, runsStarted, overlap, admin, call>>

\* processRecordsFor...: one batch entry per fetched record, in fetch order.
Process(s) ==
    LET r == run[s]
        r2 == [r EXCEPT !.processed = r.records]
    IN
    /\ r.pc = "process"
    /\ run' = [run EXCEPT ![s] =
            IF r.task = "Members" THEN OnError(r2, ErrReference, store)
            ELSE [r2 EXCEPT !.pc = "push"]]
    /\ UNCHANGED <<store, now, source, runsStarted, faultsLeft, overlap, admin, call>>

\* What callPortalAPI returns and what became of its Outcome Ledger writes:
\* after an ok response one logIntegration call per response record, whose
\* results are discarded, then {success: true}; otherwise the catch block logs
\* one Error entry, result discarded, and returns {success: false}.
callPortalAPI(responseOk, ledgerOk) ==
    [success |-> responseOk,
     ledger |-> IF ledgerOk THEN "written" ELSE "failed"]

Push(s) ==
    LET r == run[s] IN
    /\ r.pc = "push"
    /\ \E ok \in Outcomes : \E ledgerOk \in Outcomes :
        LET response == callPortalAPI(ok, ledgerOk)
            r2 == [r EXCEPT !.pushes = @ + 1, !.ledger = response.ledger,
                            !.pushed = r.processed]
        IN
        /\ Spend(ok /\ ledgerOk)
        /\ run' = [run EXCEPT ![s] =
            IF ~response.success THEN OnError(IF ok THEN r2 ELSE Fault(r2), ErrPush, store)
            ELSE [r2 EXCEPT
                    !.pushOk = TRUE,
                    !.pc = "commitLoad",
                    !.ts = IF r.task = "Auditors" THEN now ELSE @,
                    !.result = IF r.task = "Auditors" THEN "ok" ELSE @]]
    /\ UNCHANGED <<store, now, source, runsStarted, overlap, admin, call>>

CommitLoad(s) ==
    LET r == run[s]
        r2 == [r EXCEPT !.ts = IF r.task \in {"ComplianceOfficers", "Cases"}
                                THEN now ELSE @]
    IN
    /\ r.pc = "commitLoad"
    /\ \E ok \in Outcomes :
        /\ Spend(ok)
        /\ run' = [run EXCEPT ![s] =
            IF ~ok THEN CommitError(Fault(r2), ErrLoad, store)
            ELSE IF findIndex(store, r.task) = 0
            THEN CommitError(r2, ErrNotFound, store)
            ELSE [r2 EXCEPT
                    !.pc = "commitSave",
                    !.doc = updatedDocument(store, r.task, successUpdate(r2), now)]]
    /\ UNCHANGED <<store, now, source, runsStarted, overlap, admin, call>>

CommitSave(s) ==
    LET r == run[s] IN
    /\ r.pc = "commitSave"
    /\ \E ok \in Outcomes :
        /\ Spend(ok)
        /\ IF ok
           THEN /\ store' = saveSyncData(store, r.doc)
                /\ run' = [run EXCEPT ![s] =
                        Finish([r EXCEPT !.saved = TRUE], "ok", NoError, store')]
           ELSE /\ store' = store
                /\ run' = [run EXCEPT ![s] = CommitError(Fault(r), ErrSave, store)]
    /\ UNCHANGED <<now, source, runsStarted, overlap, admin, call>>

FailLoad(s) ==
    LET r == run[s] IN
    /\ r.pc = "failLoad"
    /\ \E ok \in Outcomes :
        /\ Spend(ok)
        /\ run' = [run EXCEPT ![s] =
            IF ~ok THEN FailureUpdateError(Fault(r), ErrLoad, store)
            ELSE IF findIndex(store, r.task) = 0
            THEN FailureUpdateError(r, ErrNotFound, store)
            ELSE [r EXCEPT
                    !.pc = "failSave",
                    !.doc = updatedDocument(store, r.task, failureUpdate(r, now), now)]]
    /\ UNCHANGED <<store, now, source, runsStarted, overlap, admin, call>>

FailSave(s) ==
    LET r == run[s] IN
    /\ r.pc = "failSave"
    /\ \E ok \in Outcomes :
        /\ Spend(ok)
        /\ IF ok
           THEN /\ store' = saveSyncData(store, r.doc)
                /\ run' = [run EXCEPT ![s] =
                        Finish([r EXCEPT !.saved = TRUE], "raised", r.error, store')]
           ELSE /\ store' = store
                /\ run' = [run EXCEPT ![s] =
                        FailureUpdateError(Fault(r), ErrSave, store)]
    /\ UNCHANGED <<now, source, runsStarted, overlap, admin, call>>

\* The invocation's process has exited; the slot is free for the next one.
Reap(s) ==
    /\ run[s].pc = "done"
    /\ runsStarted < MaxRuns
    /\ \A o \in Slots : run[o].pc # "idle"
    /\ run' = [run EXCEPT ![s] = [IdleRun EXCEPT !.task = run[s].task]]
    /\ UNCHANGED <<store, now, source, runsStarted, faultsLeft, overlap, admin, call>>

Tick ==
    /\ now < MaxTime
    /\ now' = now + 1
    /\ UNCHANGED <<store, source, run, runsStarted, faultsLeft, overlap, admin, call>>

(***************************************************************************)
(* Spec: successive invocations of one entity's task.                      *)
(* SpecConcurrent: invocations that may overlap in time.                   *)
(***************************************************************************)
NoCall == [op |-> "none", identifier |-> "none", outcome |-> NoError]

\* A checkpoint as createSyncRecord made it, or as the entity's last
\* successful run (at Timeline.prior, nothing fetched) left it.
InitialCheckpoint(t, synced) ==
    LET created == newRecord([module_name |-> t,
                              integration_name |-> "sugarcrm_" \o t,
                              direction |-> "inbound",
                              endpoint |-> UndefinedStr,
                              status |-> UndefinedStr], Timeline.prior)
        r == [IdleRun EXCEPT !.task = t, !.ts = Timeline.prior,
                             !.lastSyncDate = IF t = "Members" THEN Null ELSE Undefined]
    IN IF synced THEN mergeRecord(created, successUpdate(r), Timeline.prior)
       ELSE created

InitialStore(missing, synced) ==
    LET present == SelectSeq(TaskOrder, LAMBDA t : t \notin missing)
    IN [i \in 1..Len(present) |-> InitialCheckpoint(present[i], synced)]

\* No library call is being studied in isolation.
NoLibCall == [fn |-> "none"]

InitRuns ==
    /\ now = Timeline.start
    /\ run = [s \in Slots |-> IdleRun]
    /\ runsStarted = 0
    /\ admin = NoCall
    /\ call = NoLibCall

Init ==
    /\ \E missing \in SUBSET Tasks : \E synced \in BOOLEAN :
        /\ Cardinality(missing) <= MaxMissing
        /\ store = InitialStore(missing, synced)
    /\ InitRuns
    /\ source = [t \in Tasks |-> Null]
    /\ faultsLeft = MaxFaults
    /\ overlap = FALSE

\* Overlapping invocations: every checkpoint exists and has synced once, each
\* entity has one Source record modified since, and no request fails.
InitConcurrent ==
    /\ store = InitialStore({}, TRUE)
    /\ InitRuns
    /\ source = [t \in Tasks |-> 1]
    /\ faultsLeft = 0
    /\ overlap = TRUE

\* One invocation of one task, just started.
InitSingleRun ==
    /\ \E missing \in SUBSET Tasks : \E synced \in BOOLEAN : \E t \in Tasks :
        /\ Cardinality(missing) <= MaxMissing
        /\ store = InitialStore(missing, synced)
        /\ run = [s \in Slots |->
                    IF s = 1 THEN newRun(t, 1, TRUE, store, Timeline.start)
                    ELSE IdleRun]
    /\ now = Timeline.start
    /\ runsStarted = 1
    /\ admin = NoCall
    /\ call = NoLibCall
    /\ source = [t \in Tasks |-> Null]
    /\ faultsLeft = MaxFaults
    /\ overlap = FALSE

Next ==
    \/ \E s \in Slots : \E t \in Tasks : StartRun(s, t)
    \/ \E s \in Slots : GetSyncRecord(s)
    \/ \E s \in Slots : FetchPage(s)
    \/ \E s \in Slots : Process(s)
    \/ \E s \in Slots : Push(s)
    \/ \E s \in Slots : CommitLoad(s)
    \/ \E s \in Slots : CommitSave(s)
    \/ \E s \in Slots : FailLoad(s)
    \/ \E s \in Slots : FailSave(s)
    \/ \E s \in Slots : Reap(s)
    \/ Tick

Spec == Init /\ [][Next]_vars

NextSingleRun ==
    \/ \E s \in Slots : GetSyncRecord(s)
    \/ \E s \in Slots : FetchPage(s)
    \/ \E s \in Slots : Process(s)
    \/ \E s \in Slots : Push(s)
    \/ \E s \in Slots : CommitLoad(s)
    \/ \E s \in Slots : CommitSave(s)
    \/ \E s \in Slots : FailLoad(s)
    \/ \E s \in Slots : FailSave(s)
    \/ Tick

SpecSingleRun == InitSingleRun /\ [][NextSingleRun]_vars

(***************************************************************************)
(* SpecTimedRun: SpecSingleRun with a history variable: the clock value at *)
(* which the run read its checkpoint and went on to fetch is kept in       *)
(* `call`.                                                                 *)
(***************************************************************************)
TimedGetSyncRecord(s) ==
    /\ GetSyncRecordStep(s)
    /\ call' = [fn |-> "clock", fetchBegan |-> now]

NextTimedRun ==
    \/ \E s \in Slots : TimedGetSyncRecord(s)
    \/ \E s \in Slots : FetchPage(s)
    \/ \E s \in Slots : Process(s)
    \/ \E s \in Slots : Push(s)
    \/ \E s \in Slots : CommitLoad(s)
    \/ \E s \in Slots : CommitSave(s)
    \/ \E s \in Slots : FailLoad(s)
    \/ \E s \in Slots : FailSave(s)
    \/ Tick

SpecTimedRun == InitSingleRun /\ [][NextTimedRun]_vars

NextConcurrent ==
    \/ \E s \in Slots : \E t \in Tasks : StartRun(s, t)
    \/ \E s \in Slots : GetSyncRecord(s)
    \/ \E s \in Slots : FetchPage(s)
    \/ \E s \in Slots : Process(s)
    \/ \E s \in Slots : Push(s)
    \/ \E s \in Slots : CommitLoad(s)
    \/ \E s \in Slots : CommitSave(s)
    \/ \E s \in Slots : FailLoad(s)
    \/ \E s \in Slots : FailSave(s)
    \/ Tick

SpecConcurrent == InitConcurrent /\ [][NextConcurrent]_vars

(***************************************************************************)
(* SpecStore: administrative calls on the checkpoint store, one at a time, *)
(* starting from an empty document.                                        *)
(***************************************************************************)
\* Identifier strings used as module_name, integration_name and lookup key.
Names == {"A", "B", "C"}

Call(op, identifier, outcome) ==
    [op |-> op, identifier |-> identifier, outcome |-> outcome]

CreateSyncRecord(recordData) ==
    /\ Len(store) < MaxRecords
    /\ IF createExists(store, recordData)
       THEN /\ store' = store
            /\ admin' = Call("create", recordData.module_name, ErrExists)
       ELSE /\ store' = saveSyncData(store, Append(store, newRecord(recordData, now)))
            /\ admin' = Call("create", recordData.module_name, NoError)
    /\ UNCHANGED <<now, source, run, runsStarted, faultsLeft, overlap, call>>

UpdateSyncRecord(identifier, updateData) ==
    /\ IF findIndex(store, identifier) = 0
       THEN /\ store' = store
            /\ admin' = Call("update", identifier, ErrNotFound)
       ELSE /\ store' = saveSyncData(store,
                            updatedDocument(store, identifier, updateData, now))
            /\ admin' = Call("update", identifier, NoError)
    /\ UNCHANGED <<now, source, run, runsStarted, faultsLeft, overlap, call>>

DeleteSyncRecord(identifier) ==
    /\ IF findIndex(store, identifier) = 0
       THEN /\ store' = store
            /\ admin' = Call("delete", identifier, ErrNotFound)
       ELSE /\ store' = saveSyncData(store, splice(store, findIndex(store, identifier)))
            /\ admin' = Call("delete", identifier, NoError)
    /\ UNCHANGED <<now, source, run, runsStarted, faultsLeft, overlap, call>>

ResetAllSyncRecords ==
    /\ store' = saveSyncData(store, resetRecords(store, now))
    /\ admin' = Call("resetAll", "none", NoError)
    /\ UNCHANGED <<now, source, run, runsStarted, faultsLeft, overlap, call>>

\* recordData and updateData objects the callers pass.
RecordDatas ==
    {[module_name |-> m, integration_name |-> i, direction |-> "inbound",
      endpoint |-> UndefinedStr, status |-> UndefinedStr] : m \in Names, i \in Names}

UpdateDatas ==
    {[NoUpdate EXCEPT !.status = st, !.last_sync_at = l, !.updated_at = u] :
        st \in {UndefinedStr, "success", "pending"}, l \in {Undefined, Null, now},
        u \in {Undefined, Timeline.prior}}

InitStore ==
    /\ store = <<>>
    /\ InitRuns
    /\ source = [t \in Tasks |-> Null]
    /\ faultsLeft = 0
    /\ overlap = FALSE

NextStore ==
    \/ \E recordData \in RecordDatas : CreateSyncRecord(recordData)
    \/ \E identifier \in Names : \E updateData \in UpdateDatas :
            UpdateSyncRecord(identifier, updateData)
    \/ \E identifier \in Names : DeleteSyncRecord(identifier)
    \/ ResetAllSyncRecords
    \/ Tick

SpecStore == InitStore /\ [][NextStore]_vars

(***************************************************************************)
(* SpecUpdate: one updateSyncRecord call, step by step, on a document the  *)
(* tasks' checkpoints were created in.                                     *)
(***************************************************************************)
UpdateIdentifiers == {"Members", "sugarcrm_Cases", "Portal"}

InitUpdate ==
    /\ \E missing \in SUBSET Tasks : \E synced \in BOOLEAN :
        /\ Cardinality(missing) <= MaxMissing
        /\ store = InitialStore(missing, synced)
    /\ InitRuns
    /\ source = [t \in Tasks |-> Null]
    /\ faultsLeft = 0
    /\ overlap = FALSE

\* updateSyncRecord(identifier, updateData) is called.
EnterUpdate ==
    /\ call = NoLibCall
    /\ \E identifier \in UpdateIdentifiers : \E updateData \in UpdateDatas :
        call' = [fn |-> "updateSyncRecord", pc |-> "load", identifier |-> identifier,
                 updateData |-> updateData, loaded |-> <<>>, syncData |-> <<>>,
                 t |-> Null, outcome |-> NoError]
    /\ UNCHANGED <<store, now, source, run, runsStarted, faultsLeft, overlap, admin>>

\* const syncData = await loadSyncData(); findIndex; throw if -1;
\* const now = new Date().toISOString(); sync_records[recordIndex] = {...}
LoadAndMerge ==
    /\ call.fn = "updateSyncRecord" /\ call.pc = "load"
    /\ IF findIndex(store, call.identifier) = 0
       THEN call' = [call EXCEPT !.pc = "returned", !.loaded = store,
                                 !.syncData = store, !.outcome = ErrNotFound]
       ELSE call' = [call EXCEPT !.pc = "save", !.loaded = store, !.t = now,
                        !.syncData = updatedDocument(store, call.identifier,
                                                     call.updateData, now)]
    /\ UNCHANGED <<store, now, source, run, runsStarted, faultsLeft, overlap, admin>>

\* await saveSyncData(syncData); return syncData.sync_records[recordIndex];
SaveUpdated ==
    /\ call.fn = "updateSyncRecord" /\ call.pc = "save"
    /\ store' = saveSyncData(store, call.syncData)
    /\ call' = [call EXCEPT !.pc = "returned"]
    /\ UNCHANGED <<now, source, run, runsStarted, faultsLeft, overlap, admin>>

NextUpdate ==
    \/ EnterUpdate
    \/ LoadAndMerge
    \/ SaveUpdated
    \/ Tick

SpecUpdate == InitUpdate /\ [][NextUpdate]_vars

\* The updateData `manageSync reset <identifier>` passes to updateSyncRecord.
resetUpdateData == [NoUpdate EXCEPT !.status = "pending", !.last_sync_at = Null]

(***************************************************************************)
(* SpecAdmin: one administrative call on the checkpoint document           *)
(* (updateSyncRecord, deleteSyncRecord or resetAllSyncRecords), step by    *)
(* step.                                                                   *)
(***************************************************************************)
\* deleteSyncRecord(identifier) is called.
EnterDelete ==
    /\ call = NoLibCall
    /\ \E identifier \in UpdateIdentifiers :
        call' = [fn |-> "deleteSyncRecord", pc |-> "load", identifier |-> identifier,
                 updateData |-> NoUpdate, loaded |-> <<>>, syncData |-> <<>>,
                 t |-> Null, outcome |-> NoError]
    /\ UNCHANGED <<store, now, source, run, runsStarted, faultsLeft, overlap, admin>>

\* const syncData = await loadSyncData(); findIndex; throw if -1;
\* syncData.sync_records.splice(recordIndex, 1);
LoadAndSplice ==
    /\ call.fn = "deleteSyncRecord" /\ call.pc = "load"
    /\ IF findIndex(store, call.identifier) = 0
       THEN call' = [call EXCEPT !.pc = "returned", !.loaded = store,
                                 !.syncData = store, !.outcome = ErrNotFound]
       ELSE call' = [call EXCEPT !.pc = "save", !.loaded = store, !.t = now,
                        !.syncData = splice(store, findIndex(store, call.identifier))]
    /\ UNCHANGED <<store, now, source, run, runsStarted, faultsLeft, overlap, admin>>

\* await saveSyncData(syncData);
SaveSpliced ==
    /\ call.fn = "deleteSyncRecord" /\ call.pc = "save"
    /\ store' = saveSyncData(store, call.syncData)
    /\ call' = [call EXCEPT !.pc = "returned"]
    /\ UNCHANGED <<now, source, run, runsStarted, faultsLeft, overlap, admin>>

\* resetAllSyncRecords() is called.
EnterResetAll ==
    /\ call = NoLibCall
    /\ call' = [fn |-> "resetAllSyncRecords", pc |-> "load", identifier |-> "none",
                updateData |-> NoUpdate, loaded |-> <<>>, syncData |-> <<>>,
                t |-> Null, outcome |-> NoError]
    /\ UNCHANGED <<store, now, source, run, runsStarted, faultsLeft, overlap, admin>>

\* const syncData = await loadSyncData(); const now = ...; sync_records.map(...)
LoadAndReset ==
    /\ call.fn = "resetAllSyncRecords" /\ call.pc = "load"
    /\ call' = [call EXCEPT !.pc = "save", !.loaded = store, !.t = now,
                            !.syncData = resetRecords(store, now)]
    /\ UNCHANGED <<store, now, source, run, runsStarted, faultsLeft, overlap, admin>>

\* await saveSyncData(syncData);
SaveReset ==
    /\ call.fn = "resetAllSyncRecords" /\ call.pc = "save"
    /\ store' = saveSyncData(store, call.syncData)
    /\ call' = [call EXCEPT !.pc = "returned"]
    /\ UNCHANGED <<now, source, run, runsStarted, faultsLeft, overlap, admin>>

NextAdmin ==
    \/ EnterUpdate
    \/ LoadAndMerge
    \/ SaveUpdated
    \/ EnterDelete
    \/ LoadAndSplice
    \/ SaveSpliced
    \/ EnterResetAll
    \/ LoadAndReset
    \/ SaveReset
    \/ Tick

SpecAdmin == InitUpdate /\ [][NextAdmin]_vars

(***************************************************************************)
(* Field transformer (utils/fieldTransformer.js).  JavaScript values are   *)
(* written as strings: "undefined", "null", "" (empty string), "0" (the    *)
(* number zero) and non-empty text.                                        *)
(***************************************************************************)
JsNull == "null"

\* !v
Falsy(v) == v \in {UndefinedStr, JsNull, "", "0", "false"}

\* value.toString().toUpperCase()
toUpperCase(v) == IF v = "Acme" THEN "ACME" ELSE v

\* The switch on mappingConfig.transform.
applyTransform(kind, value) ==
    CASE kind = "uppercase" -> (IF ~Falsy(value) THEN toUpperCase(value) ELSE value)
      [] OTHER -> value

SourceFields == <<"name", "email1">>

PortalFields == <<"name", "email">>

MissingRequired(field) == "Missing required field: " \o field

\* transformedRecord = {}
EmptyObject == [f \in {PortalFields[k] : k \in DOMAIN PortalFields} |-> UndefinedStr]

\* One iteration of the field_mappings loop on the accumulated
\* [data, validationErrors].
mapField(acc, sugarcrmRecord, mappingConfig) ==
    LET value == sugarcrmRecord[mappingConfig.sugarcrm_field]
        transformedValue == applyTransform(mappingConfig.transform, value)
    IN
    IF mappingConfig.required /\ (Falsy(value) \/ value = "")
    THEN [acc EXCEPT !.validationErrors =
                Append(@, MissingRequired(mappingConfig.sugarcrm_field))]
    ELSE IF transformedValue \notin {JsNull, UndefinedStr, ""}
    THEN [acc EXCEPT !.data[mappingConfig.portal_field] = transformedValue]
    ELSE acc

\* The default_values loop; an absent default is "undefined".
applyDefaults(data, default_values) ==
    [f \in DOMAIN data |->
        IF default_values[f] # UndefinedStr /\ Falsy(data[f])
        THEN default_values[f] ELSE data[f]]

\* One iteration of the computed_fields loop.
applyComputed(data, config) ==
    LET computedValue ==
            CASE config.transform = "timestamp" -> "2025-01-01T00:00:00.000Z"
              [] config.transform = "copy_from_name" -> data["name"]
              [] OTHER -> JsNull
    IN IF computedValue # JsNull
       THEN [data EXCEPT ![config.portal_field] = computedValue]
       ELSE data

RECURSIVE requiredFieldErrors(_, _)
requiredFieldErrors(record, required_fields) ==
    IF required_fields = <<>> THEN <<>>
    ELSE (IF Falsy(record[Head(required_fields)]) \/ record[Head(required_fields)] = ""
          THEN <<MissingRequired(Head(required_fields))>> ELSE <<>>)
         \o requiredFieldErrors(record, Tail(required_fields))

\* validateTransformedRecord: the errors it appends; it returns isValid = true
\* exactly when it appended none.
validateTransformedRecord(record, validationRules) ==
    LET appended == requiredFieldErrors(record, validationRules.required_fields)
    IN [isValid |-> appended = <<>>, appended |-> appended]

\* The object transformSugarcrmToPortal returns, from the accumulated state.
transformResult(acc, mapping) ==
    LET v == validateTransformedRecord(acc.data, mapping.validation_rules)
    IN [data |-> acc.data,
        isValid |-> IF mapping.validation_rules.present THEN v.isValid ELSE TRUE,
        validationErrors |->
            IF mapping.validation_rules.present
            THEN acc.validationErrors \o v.appended ELSE acc.validationErrors]

(***************************************************************************)
(* SpecTransform: one call of transformSugarcrmToPortal on a source record *)
(* and a loaded mapping, statement by statement.                           *)
(***************************************************************************)
\* Values a source record's field can hold ("undefined": the key is missing).
SourceValues == {UndefinedStr, "", "0", "Acme"}

SourceRecords == [{"name", "email1"} -> SourceValues]

Mappings ==
    {[field_mappings |->
        <<[sugarcrm_field |-> "name", portal_field |-> "name",
           required |-> r1, transform |-> t1],
          [sugarcrm_field |-> "email1", portal_field |-> "email",
           required |-> r2, transform |-> "direct"]>>,
      default_values |-> [name |-> d1, email |-> d2],
      computed_fields |-> cf,
      validation_rules |-> vr] :
        r1 \in BOOLEAN, r2 \in BOOLEAN, t1 \in {"direct", "uppercase"},
        d1 \in {UndefinedStr, "Default"}, d2 \in {UndefinedStr, "Default"},
        cf \in {<<>>,
                <<[portal_field |-> "email", transform |-> "copy_from_name"]>>,
                <<[portal_field |-> "email", transform |-> "unknown"]>>},
        vr \in {[present |-> FALSE, required_fields |-> <<>>],
                [present |-> TRUE, required_fields |-> <<>>],
                [present |-> TRUE, required_fields |-> <<"name">>],
                [present |-> TRUE, required_fields |-> <<"name", "email">>]}}

NoResult == [data |-> EmptyObject, isValid |-> FALSE, validationErrors |-> <<>>]

TransformCall(sugarcrmRecord, mapping) ==
    [fn |-> "transformSugarcrmToPortal", pc |-> "field_mappings",
     sugarcrmRecord |-> sugarcrmRecord, mapping |-> mapping, i |-> 1,
     data |-> EmptyObject, validationErrors |-> <<>>,
     mapped |-> EmptyObject, result |-> NoResult]

InitTransform ==
    /\ store = <<>>
    /\ InitRuns
    /\ source = [t \in Tasks |-> Null]
    /\ faultsLeft = 0
    /\ overlap = FALSE

\* The call is entered with its arguments.
EnterTransform ==
    /\ call = NoLibCall
    /\ \E sugarcrmRecord \in SourceRecords : \E mapping \in Mappings :
        call' = TransformCall(sugarcrmRecord, mapping)
    /\ UNCHANGED <<store, now, source, run, runsStarted, faultsLeft, overlap, admin>>

MapField ==
    /\ call.fn = "transformSugarcrmToPortal" /\ call.pc = "field_mappings"
    /\ LET acc == mapField([data |-> call.data,
                            validationErrors |-> call.validationErrors],
                           call.sugarcrmRecord, call.mapping.field_mappings[call.i])
           last == call.i = Len(call.mapping.field_mappings)
       IN call' = [call EXCEPT
                    !.data = acc.data,
                    !.validationErrors = acc.validationErrors,
                    !.i = @ + 1,
                    !.mapped = IF last THEN acc.data ELSE @,
                    !.pc = IF last THEN "default_values" ELSE @]
    /\ UNCHANGED <<store, now, source, run, runsStarted, faultsLeft, overlap, admin>>

ApplyDefaults ==
    /\ call.fn = "transformSugarcrmToPortal" /\ call.pc = "default_values"
    /\ call' = [call EXCEPT
                    !.data = applyDefaults(@, call.mapping.default_values),
                    !.i = 1,
                    !.pc = IF call.mapping.computed_fields = <<>>
                           THEN "validate" ELSE "computed_fields"]
    /\ UNCHANGED <<store, now, source, run, runsStarted, faultsLeft, overlap, admin>>

ApplyComputed ==
    /\ call.fn = "transformSugarcrmToPortal" /\ call.pc = "computed_fields"
    /\ call' = [call EXCEPT
                    !.data = applyComputed(@, call.mapping.computed_fields[call.i]),
                    !.i = @ + 1,
                    !.pc = IF call.i = Len(call.mapping.computed_fields)
                           THEN "validate" ELSE @]
    /\ UNCHANGED <<store, now, source, run, runsStarted, faultsLeft, overlap, admin>>

ValidateAndReturn ==
    /\ call.fn = "transformSugarcrmToPortal" /\ call.pc = "validate"
    /\ call' = [call EXCEPT
                    !.result = transformResult([data |-> call.data,
                                    validationErrors |-> call.validationErrors],
                                    call.mapping),
                    !.pc = "returned"]
    /\ UNCHANGED <<store, now, source, run, runsStarted, faultsLeft, overlap, admin>>

NextTransform ==
    \/ EnterTransform
    \/ MapField
    \/ ApplyDefaults
    \/ ApplyComputed
    \/ ValidateAndReturn

SpecTransform == InitTransform /\ [][NextTransform]_vars

(***************************************************************************)
(* SpecProcess: one call of a task's processRecordsFor... function on a    *)
(* fetched batch.  A transformation raises when the mapping cannot be      *)
(* loaded.                                                                 *)
(***************************************************************************)
RECURSIVE mapFields(_, _, _)
mapFields(acc, sugarcrmRecord, field_mappings) ==
    IF field_mappings = <<>> THEN acc
    ELSE mapFields(mapField(acc, sugarcrmRecord, Head(field_mappings)),
                   sugarcrmRecord, Tail(field_mappings))

RECURSIVE computeFields(_, _)
computeFields(data, computed_fields) ==
    IF computed_fields = <<>> THEN data
    ELSE computeFields(applyComputed(data, Head(computed_fields)), Tail(computed_fields))

\* The whole of transformSugarcrmToPortal for a mapping that loaded.
transformSugarcrmToPortal(sugarcrmRecord, mapping) ==
    LET acc == mapFields([data |-> EmptyObject, validationErrors |-> <<>>],
                         sugarcrmRecord, mapping.field_mappings)
        data == computeFields(applyDefaults(acc.data, mapping.default_values),
                              mapping.computed_fields)
    IN transformResult([data |-> data, validationErrors |-> acc.validationErrors],
                       mapping)

\* The mapping the tasks' mapping types stand for: every field direct and
\* optional, no defaults, no computed fields, no validation rules.
TaskMapping ==
    CHOOSE m \in Mappings :
        /\ \A k \in DOMAIN m.field_mappings :
            ~m.field_mappings[k].required /\ m.field_mappings[k].transform = "direct"
        /\ m.default_values = [name |-> UndefinedStr, email |-> UndefinedStr]
        /\ m.computed_fields = <<>>
        /\ ~m.validation_rules.present

\* v || null
orNull(v) == IF Falsy(v) THEN JsNull ELSE v

\* The entry built in the try block from transformation.data.
processedEntry(task, data) ==
    IF task = "Auditors"
    THEN [name |-> data["name"], email |-> data["email"]]
    ELSE [name |-> orNull(data["name"]), email |-> orNull(data["email"])]

\* The entry built in the catch block from the raw record.
fallbackEntry(task, record) ==
    IF task = "Auditors"
    THEN [name |-> IF Falsy(record["name"]) THEN "Unknown" ELSE record["name"],
          email |-> orNull(record["email1"])]
    ELSE [name |-> orNull(record["name"]), email |-> JsNull]

\* A loop body that dropped the records whose transformation raised.
pushProcessed_DropFailed(processedRecords, task, record, loaded) ==
    IF loaded
    THEN Append(processedRecords,
                processedEntry(task, transformSugarcrmToPortal(record, TaskMapping).data))
    ELSE processedRecords

\* The body of `for (const record of records)`: try, catch, push.
pushProcessed(processedRecords, task, record, loaded) ==
    IF loaded
    THEN Append(processedRecords,
                processedEntry(task, transformSugarcrmToPortal(record, TaskMapping).data))
    ELSE Append(processedRecords, fallbackEntry(task, record))

MaxBatch == 2      \* records in a fetched batch

\* Raw records of a batch.
BatchRecords == {r \in SourceRecords : r["email1"] = "Acme"}

Batches == UNION {[1..n -> BatchRecords] : n \in 0..MaxBatch}

EnterProcess ==
    /\ call = NoLibCall
    /\ \E task \in Tasks : \E records \in Batches :
       \E loads \in [DOMAIN records -> BOOLEAN] :
        call' = [fn |-> "processRecords", pc |-> "loop", task |-> task,
                 records |-> records, loads |-> loads, i |-> 1,
                 processedRecords |-> <<>>]
    /\ UNCHANGED <<store, now, source, run, runsStarted, faultsLeft, overlap, admin>>

ProcessRecord ==
    /\ call.fn = "processRecords" /\ call.pc = "loop"
    /\ call.i <= Len(call.records)
    /\ call' = [call EXCEPT
                    !.processedRecords = pushProcessed(@, call.task,
                                            call.records[call.i], call.loads[call.i]),
                    !.i = @ + 1]
    /\ UNCHANGED <<store, now, source, run, runsStarted, faultsLeft, overlap, admin>>

ReturnProcessed ==
    /\ call.fn = "processRecords" /\ call.pc = "loop"
    /\ call.i > Len(call.records)
    /\ call' = [call EXCEPT !.pc = "returned"]
    /\ UNCHANGED <<store, now, source, run, runsStarted, faultsLeft, overlap, admin>>

NextProcess ==
    \/ EnterProcess
    \/ ProcessRecord
    \/ ReturnProcessed

SpecProcess == InitTransform /\ [][NextProcess]_vars

(***************************************************************************)
(* SpecUsersRun: SugarCRMCoToPortalUsers from the fetched batch on:        *)
(* transform every record, push the batch, update the checkpoint.          *)
(***************************************************************************)
\* Fetched records: with and without a name, with and without an e-mail.
UsersRecords ==
    {r \in SourceRecords : r["name"] \in {UndefinedStr, "Acme"}
                            /\ r["email1"] \in {"", "Acme"}}

UsersBatches == UNION {[1..n -> UsersRecords] : n \in 1..MaxBatch}

\* Mapping configurations 'sugarcrm_to_portal_users' may stand for.
UsersMappings ==
    {m \in Mappings :
        /\ m.field_mappings[1].transform = "direct"
        /\ m.default_values = [name |-> UndefinedStr, email |-> UndefinedStr]
        /\ m.computed_fields = <<>>}

\* A loop body that kept a record only when its transformation was valid.
pushTransformed_ValidOnly(processedRecords, task, transformation) ==
    IF transformation.isValid
    THEN Append(processedRecords, processedEntry(task, transformation.data))
    ELSE processedRecords

\* The try block of the loop: the entry is built from transformation.data and
\* pushed; transformation.isValid is not read.
pushTransformed(processedRecords, task, transformation) ==
    Append(processedRecords, processedEntry(task, transformation.data))

\* The run as successUpdate and failureUpdate see it.
usersRun(t, err) ==
    [IdleRun EXCEPT !.task = "ComplianceOfficers", !.ts = t,
                    !.total_fetched = Len(call.records),
                    !.lastSyncDate = call.lastSyncDate, !.error = err]

\* fetchAllRecords returned a non-empty batch.
EnterUsersRun ==
    /\ call = NoLibCall
    /\ findIndex(store, "ComplianceOfficers") # 0
    /\ \E records \in UsersBatches : \E mapping \in UsersMappings :
        call' = [fn |-> "SugarCRMCoToPortalUsers", pc |-> "process",
                 records |-> records, mapping |-> mapping, i |-> 1,
                 processedRecords |-> <<>>, isValid |-> <<>>, pushed |-> <<>>,
                 pushes |-> 0, pushOk |-> FALSE,
                 lastSyncDate |-> getSyncRecord(store, "ComplianceOfficers").last_sync_at,
                 result |-> "pending"]
    /\ UNCHANGED <<store, now, source, run, runsStarted, faultsLeft, overlap, admin>>

\* for (const record of records) { transformation = await transform...; push }
ProcessUsersRecord ==
    /\ call.fn = "SugarCRMCoToPortalUsers" /\ call.pc = "process"
    /\ call.i <= Len(call.records)
    /\ LET transformation == transformSugarcrmToPortal(call.records[call.i], call.mapping)
       IN call' = [call EXCEPT
                    !.processedRecords =
                        pushTransformed(@, "ComplianceOfficers", transformation),
                    !.isValid = Append(@, transformation.isValid),
                    !.i = @ + 1]
    /\ UNCHANGED <<store, now, source, run, runsStarted, faultsLeft, overlap, admin>>

\* const portalResponse = await syncToPortalUsers(processedRecords);
PushUsers ==
    /\ call.fn = "SugarCRMCoToPortalUsers" /\ call.pc = "process"
    /\ call.i > Len(call.records)
    /\ \E ok \in BOOLEAN :
        call' = [call EXCEPT
                    !.pushes = IF call.processedRecords = <<>> THEN @ ELSE @ + 1,
                    !.pushed = call.processedRecords,
                    !.pushOk = ok \/ call.processedRecords = <<>>,
                    !.pc = IF ok \/ call.processedRecords = <<>> THEN "commit" ELSE "catch"]
    /\ UNCHANGED <<store, now, source, run, runsStarted, faultsLeft, overlap, admin>>

\* await updateSyncRecord(moduleName, {status: 'success', ...});
CommitUsers ==
    /\ call.fn = "SugarCRMCoToPortalUsers" /\ call.pc = "commit"
    /\ store' = saveSyncData(store,
                    updatedDocument(store, "ComplianceOfficers",
                                    successUpdate(usersRun(now, NoError)), now))
    /\ call' = [call EXCEPT !.pc = "done", !.result = "ok"]
    /\ UNCHANGED <<now, source, run, runsStarted, faultsLeft, overlap, admin>>

\* catch (error) { await updateSyncRecord(moduleName, {status: 'failed', ...}); throw error; }
CatchUsers ==
    /\ call.fn = "SugarCRMCoToPortalUsers" /\ call.pc = "catch"
    /\ store' = saveSyncData(store,
                    updatedDocument(store, "ComplianceOfficers",
                                    failureUpdate(usersRun(Undefined, ErrPush), now), now))
    /\ call' = [call EXCEPT !.pc = "done", !.result = "raised"]
    /\ UNCHANGED <<now, source, run, runsStarted, faultsLeft, overlap, admin>>

NextUsersRun ==
    \/ EnterUsersRun
    \/ ProcessUsersRecord
    \/ PushUsers
    \/ CommitUsers
    \/ CatchUsers
    \/ Tick

SpecUsersRun == InitUpdate /\ [][NextUsersRun]_vars

(***************************************************************************)
(* SpecCli: one `node index.js <taskName> [args]` invocation, from main to *)
(* the exit of the process.                                                *)
(***************************************************************************)
ErrImport == "Cannot find module"

\* args of `manageSync <command> [identifier]`; "undefined": no identifier.
ManageSyncArgs ==
    [command : {"create", "delete", "reset"},
     identifier : UpdateIdentifiers \cup {UndefinedStr}]

NoArgs == [command |-> UndefinedStr, identifier |-> UndefinedStr]

\* recordData handleCreateCommand builds from its arguments.
createArgs(identifier) ==
    [module_name |-> identifier, integration_name |-> "sugarcrm_" \o identifier,
     direction |-> "inbound", endpoint |-> UndefinedStr, status |-> UndefinedStr]

\* The error the Checkpoint Store operation of the command raises, if any.
manageSyncError(records, args) ==
    CASE args.identifier = UndefinedStr -> NoError
      [] args.command = "create" ->
            (IF createExists(records, createArgs(args.identifier))
             THEN ErrExists ELSE NoError)
      [] OTHER ->
            (IF findIndex(records, args.identifier) = 0 THEN ErrNotFound ELSE NoError)

\* The document the command leaves when its operation does not raise.
manageSyncDocument(records, args, t) ==
    CASE args.command = "reset" /\ args.identifier = UndefinedStr ->
            resetRecords(records, t)
      [] args.identifier = UndefinedStr -> records
      [] args.command = "create" ->
            Append(records, newRecord(createArgs(args.identifier), t))
      [] args.command = "delete" ->
            splice(records, findIndex(records, args.identifier))
      [] OTHER -> updatedDocument(records, args.identifier, resetUpdateData, t)

\* main(): const taskName = args[0]; await executeTask(taskName)
EnterMain ==
    /\ call = NoLibCall
    /\ \E taskName \in Tasks \cup {"manageSync", "noSuchTask"} :
       \E args \in ManageSyncArgs \cup {NoArgs} :
        /\ (taskName = "manageSync") = (args # NoArgs)
        /\ call' = [fn |-> "main", pc |-> "import", taskName |-> taskName,
                    args |-> args, error |-> NoError, raised |-> NoError,
                    exitCode |-> Null]
    /\ UNCHANGED <<store, now, source, run, runsStarted, faultsLeft, overlap, admin>>

\* const taskModule = await import(`./tasks/${taskName}.js`);
ImportTask ==
    /\ call.fn = "main" /\ call.pc = "import"
    /\ call' = IF call.taskName = "noSuchTask"
               THEN [call EXCEPT !.pc = "settled", !.error = ErrImport,
                                 !.raised = ErrImport]
               ELSE [call EXCEPT !.pc = "task"]
    /\ UNCHANGED <<store, now, source, run, runsStarted, faultsLeft, overlap, admin>>

\* await taskModule.default() for a sync task: its catch block rethrows.
RunSyncTask ==
    /\ call.fn = "main" /\ call.pc = "task" /\ call.taskName \in Tasks
    /\ \E err \in {NoError, ErrFetch, ErrPush} :
        call' = [call EXCEPT !.pc = "settled", !.error = err, !.raised = err]
    /\ UNCHANGED <<store, now, source, run, runsStarted, faultsLeft, overlap, admin>>

\* await taskModule.default() for manageSync: try { switch (command) ... }
\* catch (error) { console.error(...) }
RunManageSync ==
    /\ call.fn = "main" /\ call.pc = "task" /\ call.taskName = "manageSync"
    /\ LET err == manageSyncError(store, call.args) IN
        /\ store' = IF err = NoError
                    THEN saveSyncData(store, manageSyncDocument(store, call.args, now))
                    ELSE store
        /\ call' = [call EXCEPT !.pc = "settled", !.error = err, !.raised = NoError]
    /\ UNCHANGED <<now, source, run, runsStarted, faultsLeft, overlap, admin>>

\* catch (error) { ...; process.exit(1); } or main returns and the process ends.
ExitMain ==
    /\ call.fn = "main" /\ call.pc = "settled"
    /\ call' = [call EXCEPT !.pc = "exited",
                            !.exitCode = IF call.raised # NoError THEN 1 ELSE 0]
    /\ UNCHANGED <<store, now, source, run, runsStarted, faultsLeft, overlap, admin>>

NextCli ==
    \/ EnterMain
    \/ ImportTask
    \/ RunSyncTask
    \/ RunManageSync
    \/ ExitMain
    \/ Tick

SpecCli == InitUpdate /\ [][NextCli]_vars

(***************************************************************************)
(* SpecFetch: one call of fetchAllRecords against an upstream that may     *)
(* answer a page request with any record count, has_more and next_offset,  *)
(* or fail it.  A page's records are kept as one chunk                     *)
(* [page, offset, count].                                                  *)
(***************************************************************************)
MaxPages == 3      \* page requests per call

PageCounts == {0, 1, 6000}

NextOffsets == {0, 1, 2}

Responses ==
    [count : PageCounts, has_more : BOOLEAN, next_offset : NextOffsets]

\* offset = response.data.next_offset, had it been advanced by the page length
\* instead (as fetchAllRelationshipRecords does).
nextOffset_AddPageLength(offset, response) == offset + response.count

\* offset = response.data.next_offset
nextOffset(offset, response) == response.next_offset

\* A circuit breaker that never trips.
overLimit_Never(totalFetched) == FALSE

\* if (totalFetched > 10000)
overLimit(totalFetched) == totalFetched > FetchLimit

NoFetchResult == [records |-> <<>>, total_fetched |-> 0]

\* An accumulation that keeps only the page just received.
concat_LastPageOnly(allRecords, page) == <<page>>

\* allRecords = allRecords.concat(records); a page's records are kept as one
\* entry holding their number and the request they answer.
concat(allRecords, page) == Append(allRecords, page)

EnterFetch ==
    /\ call = NoLibCall
    /\ \E onPage \in BOOLEAN :
        call' = [fn |-> "fetchAllRecords", pc |-> "request", onPage |-> onPage,
                 allRecords |-> <<>>, offset |-> 0, hasMore |-> TRUE,
                 totalFetched |-> 0, requests |-> <<>>, responses |-> <<>>,
                 callbacks |-> 0, result |-> NoFetchResult]
    /\ UNCHANGED <<store, now, source, run, runsStarted, faultsLeft, overlap, admin>>

\* while (hasMore) { pageConfig.offset = offset; sugarCRMPost(pageConfig) ...
RequestPage ==
    /\ call.fn = "fetchAllRecords" /\ call.pc = "request"
    /\ Len(call.requests) < MaxPages
    /\ call' = [call EXCEPT !.requests = Append(@, call.offset), !.pc = "await"]
    /\ UNCHANGED <<store, now, source, run, runsStarted, faultsLeft, overlap, admin>>

\* The awaited sugarCRMPost resolves: accumulate the page.
ReceivePage ==
    /\ call.fn = "fetchAllRecords" /\ call.pc = "await"
    /\ \E response \in Responses :
        call' = [call EXCEPT
            !.responses = Append(@, response),
            !.allRecords = concat(@, [page |-> Len(call.requests),
                                      offset |-> call.offset,
                                      count |-> response.count]),
            !.totalFetched = @ + response.count,
            !.hasMore = response.has_more,
            !.offset = nextOffset(@, response),
            !.pc = IF call.onPage THEN "onPage" ELSE "check"]
    /\ UNCHANGED <<store, now, source, run, runsStarted, faultsLeft, overlap, admin>>

\* The awaited sugarCRMPost rejects: the catch block rethrows.
FailPage ==
    /\ call.fn = "fetchAllRecords" /\ call.pc = "await"
    /\ call' = [call EXCEPT !.pc = "raised"]
    /\ UNCHANGED <<store, now, source, run, runsStarted, faultsLeft, overlap, admin>>

\* await onPage(records, response)
OnPage ==
    /\ call.fn = "fetchAllRecords" /\ call.pc = "onPage"
    /\ call' = [call EXCEPT !.callbacks = @ + 1, !.pc = "check"]
    /\ UNCHANGED <<store, now, source, run, runsStarted, faultsLeft, overlap, admin>>

\* The circuit breaker, then the loop condition; on exit the return statement.
CheckAndLoop ==
    /\ call.fn = "fetchAllRecords" /\ call.pc = "check"
    /\ call' = IF overLimit(call.totalFetched) \/ ~call.hasMore
               THEN [call EXCEPT
                        !.pc = "returned",
                        !.result = [records |-> call.allRecords,
                                    total_fetched |-> call.totalFetched]]
               ELSE [call EXCEPT !.pc = "request"]
    /\ UNCHANGED <<store, now, source, run, runsStarted, faultsLeft, overlap, admin>>

NextFetch ==
    \/ EnterFetch
    \/ RequestPage
    \/ ReceivePage
    \/ FailPage
    \/ OnPage
    \/ CheckAndLoop

SpecFetch == InitTransform /\ [][NextFetch]_vars

(***************************************************************************)
(* Outcome Ledger (utils/integrationLogger.js).  SpecLedger: one           *)
(* logIntegration call, step by step.  A string is a tuple of characters;  *)
(* an identifier is undefined, null or a string.                           *)
(***************************************************************************)
HexDigits ==
    {"0", "1", "2", "3", "4", "5", "6", "7", "8", "9",
     "a", "b", "c", "d", "e", "f", "A", "B", "C", "D", "E", "F"}

\* Lengths of the five groups /^[0-9a-f]{8}-[0-9a-f]{4}-...-[0-9a-f]{12}$/i asks for.
UuidGroups == <<8, 4, 4, 4, 12>>

RECURSIVE groupsLength(_)
groupsLength(groups) ==
    IF groups = <<>> THEN 0 ELSE Head(groups) + 1 + groupsLength(Tail(groups))

\* Positions of the hyphens between the groups.
RECURSIVE hyphenPositions(_, _)
hyphenPositions(groups, offset) ==
    IF Len(groups) <= 1 THEN {}
    ELSE {offset + Head(groups) + 1}
            \cup hyphenPositions(Tail(groups), offset + Head(groups) + 1)

\* A test that accepts any string starting with a UUID.  Not what the code
\* does (the expression is anchored at both ends): the contrast for
\* uuidRegexTest below.
uuidRegexTest_Unanchored(chars) ==
    /\ Len(chars) >= groupsLength(UuidGroups) - 1
    /\ \A i \in 1..(groupsLength(UuidGroups) - 1) :
        IF i \in hyphenPositions(UuidGroups, 0) THEN chars[i] = "-"
        ELSE chars[i] \in HexDigits

\* uuidRegex.test(value)
uuidRegexTest(chars) ==
    /\ Len(chars) = groupsLength(UuidGroups) - 1
    /\ \A i \in DOMAIN chars :
        IF i \in hyphenPositions(UuidGroups, 0) THEN chars[i] = "-"
        ELSE chars[i] \in HexDigits

UndefinedId == [kind |-> "undefined", chars |-> <<>>]
NullId == [kind |-> "null", chars |-> <<>>]
Str(chars) == [kind |-> "string", chars |-> chars]

\* const formatForUUID = (value) => { if (!value) return null; ... }
formatForUUID(value) ==
    IF value.kind # "string" \/ value.chars = <<>> THEN NullId
    ELSE IF uuidRegexTest(value.chars) THEN value
    ELSE NullId

\* A check that asks for log_type only.  Not what the code does: the contrast
\* for requiredMissing below.
requiredMissing_LogTypeOnly(logData) == Falsy(logData.log_type)

\* !log_type || !module_name || !message
requiredMissing(logData) ==
    Falsy(logData.log_type) \/ Falsy(logData.module_name) \/ Falsy(logData.message)

\* The params array handed to query().
insertParams(logData) ==
    [log_type |-> logData.log_type,
     module_name |-> logData.module_name,
     sugar_id |-> formatForUUID(logData.sugar_id),
     portal_id |-> formatForUUID(logData.portal_id),
     message |-> logData.message]

\* Identifier values callers pass: strings of the UUID shape in lower case,
\* upper case and digits, and strings that miss it in one way each.
Repeat(c, n) == [i \in 1..n |-> c]

uuidOf(c) ==
    Repeat(c, 8) \o <<"-">> \o Repeat(c, 4) \o <<"-">> \o Repeat(c, 4)
        \o <<"-">> \o Repeat(c, 4) \o <<"-">> \o Repeat(c, 12)

WellFormedIds == {Str(uuidOf("a")), Str(uuidOf("F")), Str(uuidOf("7"))}

MalformedIds ==
    {Str(uuidOf("g")),
     Str(SubSeq(uuidOf("a"), 1, 35)),
     Str(uuidOf("a") \o <<"a">>),
     Str(Repeat("a", 32)),
     Str([uuidOf("a") EXCEPT ![9] = "a"]),
     Str(<<"1", "2", "3">>),
     Str(<<>>)}

IdValues == WellFormedIds \cup MalformedIds \cup {UndefinedId, NullId}

LogDatas ==
    [log_type : {UndefinedStr, "", "Info"},
     module_name : {UndefinedStr, "Members"},
     message : {UndefinedStr, "", "Synced"},
     sugar_id : IdValues,
     portal_id : {Str(uuidOf("a")), Str(uuidOf("g")), UndefinedId}]

NoParams ==
    [log_type |-> UndefinedStr, module_name |-> UndefinedStr,
     sugar_id |-> UndefinedId, portal_id |-> UndefinedId, message |-> UndefinedStr]

NoLogResult == [success |-> FALSE, error |-> UndefinedStr, logId |-> Null]

\* logIntegration(logData) is called; the database is up or down.
EnterLog ==
    /\ call = NoLibCall
    /\ \E logData \in LogDatas : \E dbOk \in BOOLEAN :
        call' = [fn |-> "logIntegration", pc |-> "validate", logData |-> logData,
                 dbOk |-> dbOk, params |-> NoParams, queries |-> 0, rows |-> <<>>,
                 thrown |-> UndefinedStr, result |-> NoLogResult]
    /\ UNCHANGED <<store, now, source, run, runsStarted, faultsLeft, overlap, admin>>

\* if (!log_type || !module_name || !message) return {success: false, error}
\* ... const params = [...]
ValidateLog ==
    /\ call.fn = "logIntegration" /\ call.pc = "validate"
    /\ IF requiredMissing(call.logData)
       THEN call' = [call EXCEPT !.pc = "returned",
                        !.result = [NoLogResult EXCEPT
                                        !.error = "Missing required fields"]]
       ELSE call' = [call EXCEPT !.pc = "query", !.params = insertParams(call.logData)]
    /\ UNCHANGED <<store, now, source, run, runsStarted, faultsLeft, overlap, admin>>

\* const result = await query(insertQuery, params); success with a row
\* returns {success: true, logId}; otherwise throw new Error(result.error || ...)
QueryInsert ==
    /\ call.fn = "logIntegration" /\ call.pc = "query"
    /\ IF call.dbOk
       THEN call' = [call EXCEPT !.pc = "returned", !.queries = @ + 1,
                        !.rows = Append(@, call.params),
                        !.result = [success |-> TRUE, error |-> UndefinedStr,
                                    logId |-> Len(call.rows) + 1]]
       ELSE call' = [call EXCEPT !.pc = "catch", !.queries = @ + 1,
                        !.thrown = "Database query error"]
    /\ UNCHANGED <<store, now, source, run, runsStarted, faultsLeft, overlap, admin>>

\* catch (error) { ...; return {success: false, error: error.message} }
CatchLog ==
    /\ call.fn = "logIntegration" /\ call.pc = "catch"
    /\ call' = [call EXCEPT !.pc = "returned",
                    !.result = [NoLogResult EXCEPT !.error = call.thrown]]
    /\ UNCHANGED <<store, now, source, run, runsStarted, faultsLeft, overlap, admin>>

NextLedger ==
    \/ EnterLog
    \/ ValidateLog
    \/ QueryInsert
    \/ CatchLog

SpecLedger == InitTransform /\ [][NextLedger]_vars

(***************************************************************************)
(* SpecFetchLoop: the loop of fetchAllRecords without a bound on the       *)
(* number of iterations; only the variables the loop reads are kept.       *)
(* SpecFetchFair adds that a step that can be taken is taken: the          *)
(* JavaScript run-time continues the function, and every page request is   *)
(* answered (by a response or by an error).                                *)
(***************************************************************************)
LoopCounts == {0, 2500, 6000}

LoopResponses ==
    [count : LoopCounts, has_more : BOOLEAN, next_offset : NextOffsets]

EnterLoop ==
    /\ call = NoLibCall
    /\ \E onPage \in BOOLEAN :
        call' = [fn |-> "fetchAllRecords", pc |-> "request", onPage |-> onPage,
                 offset |-> 0, hasMore |-> TRUE, totalFetched |-> 0,
                 requested |-> 0]
    /\ UNCHANGED <<store, now, source, run, runsStarted, faultsLeft, overlap, admin>>

\* while (hasMore) { pageConfig.offset = offset; sugarCRMPost(pageConfig) ...
LoopRequest ==
    /\ call.fn = "fetchAllRecords" /\ call.pc = "request"
    /\ call' = [call EXCEPT !.requested = call.offset, !.pc = "await"]
    /\ UNCHANGED <<store, now, source, run, runsStarted, faultsLeft, overlap, admin>>

\* The awaited sugarCRMPost resolves.
LoopReceive ==
    /\ call.fn = "fetchAllRecords" /\ call.pc = "await"
    /\ \E response \in LoopResponses :
        call' = [call EXCEPT
            !.totalFetched = @ + response.count,
            !.hasMore = response.has_more,
            !.offset = nextOffset(@, response),
            !.pc = IF call.onPage THEN "onPage" ELSE "check"]
    /\ UNCHANGED <<store, now, source, run, runsStarted, faultsLeft, overlap, admin>>

\* The awaited sugarCRMPost rejects: the catch block rethrows.
LoopFail ==
    /\ call.fn = "fetchAllRecords" /\ call.pc = "await"
    /\ call' = [call EXCEPT !.pc = "raised"]
    /\ UNCHANGED <<store, now, source, run, runsStarted, faultsLeft, overlap, admin>>

\* await onPage(records, response)
LoopOnPage ==
    /\ call.fn = "fetchAllRecords" /\ call.pc = "onPage"
    /\ call' = [call EXCEPT !.pc = "check"]
    /\ UNCHANGED <<store, now, source, run, runsStarted, faultsLeft, overlap, admin>>

\* The circuit breaker, then the loop condition.
LoopCheck ==
    /\ call.fn = "fetchAllRecords" /\ call.pc = "check"
    /\ call' = [call EXCEPT
                    !.pc = IF overLimit(call.totalFetched) \/ ~call.hasMore
                           THEN "returned" ELSE "request"]
    /\ UNCHANGED <<store, now, source, run, runsStarted, faultsLeft, overlap, admin>>

NextFetchLoop ==
    \/ EnterLoop
    \/ LoopRequest
    \/ LoopReceive
    \/ LoopFail
    \/ LoopOnPage
    \/ LoopCheck

SpecFetchLoop == InitTransform /\ [][NextFetchLoop]_vars

SpecFetchFair ==
    /\ SpecFetchLoop
    /\ WF_vars(LoopRequest)
    /\ WF_vars(LoopReceive \/ LoopFail)
    /\ WF_vars(LoopOnPage)
    /\ WF_vars(LoopCheck)

(***************************************************************************)
(* SpecPortal: one call of callPortalAPI, statement by statement.  .writes *)
(* is the list of logIntegration calls it made (their results are          *)
(* discarded; logIntegration does not raise).                              *)
(***************************************************************************)
\* The elements of a Destination response array.
PortalResults ==
    [sugarId : {"s1", "s2"}, internalStatus : {"Success", "Failed"},
     validationErrors : BOOLEAN]

RECURSIVE SeqsUpTo(_, _)
SeqsUpTo(S, n) ==
    IF n = 0 THEN {<<>>}
    ELSE SeqsUpTo(S, n - 1) \cup
         {Append(q, x) : q \in {p \in SeqsUpTo(S, n - 1) : Len(p) = n - 1}, x \in S}

\* What `await fetch(...)` and `response.json()` give: a transport error, a
\* response that is not ok, or an ok response whose body is an array of
\* results or some other JSON value.
PortalResponses ==
    {[kind |-> "network_error", ok |-> FALSE, data |-> <<>>],
     [kind |-> "http_error", ok |-> FALSE, data |-> <<>>],
     [kind |-> "object", ok |-> TRUE, data |-> <<>>]}
    \cup {[kind |-> "array", ok |-> TRUE, data |-> a] :
            a \in SeqsUpTo(PortalResults, MaxBatch)}

\* result.validationErrors ? `${result.message} | Validation Errors: ...` : result.message
combinedMessage(result) ==
    IF result.validationErrors THEN "message | Validation Errors" ELSE "message"

\* The logData of the per-record logIntegration call.
resultLogData(result) ==
    [log_type |-> "Integration", module_name |-> "result.moduleName",
     sugar_id |-> result.sugarId, internal_status |-> result.internalStatus,
     message |-> combinedMessage(result)]

\* The logData of the catch block's logIntegration call.
errorLogData(moduleName) ==
    [log_type |-> "Error", module_name |-> moduleName,
     sugar_id |-> UndefinedStr, internal_status |-> "Failed",
     message |-> "Portal API call failed"]

\* A loop that logs only the first element of the response.
logResult_FirstOnly(writes, result) ==
    IF writes = <<>> THEN <<resultLogData(result)>> ELSE writes

\* await logIntegration({...}) in the response loop.
logResult(writes, result) == Append(writes, resultLogData(result))

NoPortalResult == [success |-> FALSE, data |-> <<>>, returned |-> FALSE]

EnterPortal ==
    /\ call = NoLibCall
    /\ \E moduleName \in {"Generic", "Members"} :
        call' = [fn |-> "callPortalAPI", pc |-> "getPortalToken",
                 moduleName |-> moduleName,
                 response |-> [kind |-> "none", ok |-> FALSE, data |-> <<>>],
                 i |-> 0, writes |-> <<>>, ledgerFailures |-> 0,
                 result |-> NoPortalResult]
    /\ UNCHANGED <<store, now, source, run, runsStarted, faultsLeft, overlap, admin>>

\* const token = await getPortalToken(): it resolves, or it rejects and the
\* catch block is entered.
GetPortalToken ==
    /\ call.fn = "callPortalAPI" /\ call.pc = "getPortalToken"
    /\ \E ok \in BOOLEAN :
        call' = [call EXCEPT !.pc = IF ok THEN "fetch" ELSE "catch"]
    /\ UNCHANGED <<store, now, source, run, runsStarted, faultsLeft, overlap, admin>>

\* await fetch(...); if (!response.ok) throw ...; await response.json()
FetchPortal ==
    /\ call.fn = "callPortalAPI" /\ call.pc = "fetch"
    /\ \E response \in PortalResponses :
        call' = [call EXCEPT
                    !.response = response,
                    !.pc = IF ~response.ok THEN "catch"
                           ELSE IF response.kind = "array" /\ response.data # <<>>
                           THEN "logIntegration" ELSE "return"]
    /\ UNCHANGED <<store, now, source, run, runsStarted, faultsLeft, overlap, admin>>

\* One iteration of the loop over responseData; the ledger write succeeds or
\* fails, and logIntegration returns either way.
LogResult ==
    /\ call.fn = "callPortalAPI" /\ call.pc = "logIntegration"
    /\ \E written \in BOOLEAN :
        call' = [call EXCEPT
                    !.i = @ + 1,
                    !.writes = logResult(@, call.response.data[call.i + 1]),
                    !.ledgerFailures = IF written THEN @ ELSE 1,
                    !.pc = IF call.i + 1 = Len(call.response.data)
                           THEN "return" ELSE @]
    /\ UNCHANGED <<store, now, source, run, runsStarted, faultsLeft, overlap, admin>>

\* return { success: true, data: responseData, status: response.status }
ReturnPortal ==
    /\ call.fn = "callPortalAPI" /\ call.pc = "return"
    /\ call' = [call EXCEPT
                    !.result = [success |-> TRUE, data |-> call.response.data,
                                returned |-> TRUE],
                    !.pc = "returned"]
    /\ UNCHANGED <<store, now, source, run, runsStarted, faultsLeft, overlap, admin>>

\* The catch block: one Error entry is logged, then { success: false, ... }.
CatchPortal ==
    /\ call.fn = "callPortalAPI" /\ call.pc = "catch"
    /\ \E written \in BOOLEAN :
        call' = [call EXCEPT
                    !.writes = Append(@, errorLogData(call.moduleName)),
                    !.ledgerFailures = IF written THEN @ ELSE 1,
                    !.result = [success |-> FALSE, data |-> <<>>, returned |-> TRUE],
                    !.pc = "returned"]
    /\ UNCHANGED <<store, now, source, run, runsStarted, faultsLeft, overlap, admin>>

NextPortal ==
    \/ EnterPortal
    \/ GetPortalToken
    \/ FetchPortal
    \/ LogResult
    \/ ReturnPortal
    \/ CatchPortal

SpecPortal == InitTransform /\ [][NextPortal]_vars

(***************************************************************************)
(* SpecValidate: the end of one transformSugarcrmToPortal call whose       *)
(* mapping copies email1 to email and phone_office to phone with the       *)
(* 'direct' transform: the call of validateTransformedRecord, statement by *)
(* statement.  Values carry their JavaScript type; .chars is the value's   *)
(* text (the string itself, String(number), JSON.stringify(object)).       *)
(* transformSugarcrmToPortal has no try block: what the validation raises  *)
(* leaves the call.                                                        *)
(***************************************************************************)
StringValue(chars) == [type |-> "string", chars |-> chars]

NumberValue(chars) == [type |-> "number", chars |-> chars]

ObjectValue(chars) == [type |-> "object", chars |-> chars]

UndefinedValue == [type |-> "undefined", chars |-> <<>>]

\* !!value
truthy(value) ==
    \/ value.type = "object"
    \/ value.type = "string" /\ value.chars # <<>>
    \/ value.type = "number" /\ value.chars # <<"0">>

\* const value = sugarcrmRecord[field]; 'direct'; assigned unless null,
\* undefined or ''.
directValue(value) ==
    IF value.type = "undefined" \/ value = StringValue(<<>>)
    THEN UndefinedValue ELSE value

\* /^[^\s@]+@[^\s@]+\.[^\s@]+$/ accepting any text that holds an "@".
emailRegexTest_AnyAt(chars) == \E i \in 1..Len(chars) : chars[i] = "@"

\* /^[^\s@]+@[^\s@]+\.[^\s@]+$/.test(chars): an "@" at position i and a "."
\* at position j with at least one character before, between and after, and
\* no white space or second "@" anywhere.
emailRegexTest(chars) ==
    \E i, j \in 1..Len(chars) :
        /\ chars[i] = "@" /\ chars[j] = "."
        /\ 1 < i /\ i + 1 < j /\ j < Len(chars)
        /\ \A k \in (1..Len(chars)) \ {i} : chars[k] \notin {" ", "@"}

\* typeof record.email === 'object' ? JSON.stringify(record.email) : record.email,
\* as the text the regular expression is tested on.
emailString(email) == email.chars

Digits == {"0", "1", "2", "3", "4", "5", "6", "7", "8", "9"}

\* .replace(/[\s\-\(\)]/g, '')
stripPhone(chars) == SelectSeq(chars, LAMBDA c : c \notin {" ", "-", "(", ")"})

\* /^[\+]?[1-9][\d]{0,15}$/.test(chars)
phoneRegexTest(chars) ==
    LET digits == IF chars # <<>> /\ chars[1] = "+" THEN Tail(chars) ELSE chars
    IN  /\ Len(digits) \in 1..16
        /\ digits[1] \in Digits \ {"0"}
        /\ \A k \in 1..Len(digits) : digits[k] \in Digits

\* record.phone.replace exists only on strings.
hasReplace(value) == value.type = "string"

InvalidEmail(text) == [kind |-> "Invalid email format", value |-> text]

InvalidPhone(text) == [kind |-> "Invalid phone format", value |-> text]

MissingField(field) == [kind |-> "Missing required field", value |-> field]

EmailValues ==
    {UndefinedValue,
     StringValue(<<>>),
     StringValue(<<"a", "@", "b", ".", "c", "o", "m">>),
     StringValue(<<"n", "o", "t", "-", "a", "n", "-", "e", "m", "a", "i", "l">>),
     StringValue(<<"a", "@", "b">>),
     StringValue(<<"a", " ", "b", "@", "c", ".", "d">>),
     StringValue(<<"a", "@", "b", "@", "c", ".", "d">>),
     StringValue(<<"@", "b", ".", "c">>),
     StringValue(<<"a", "@", "b", ".">>),
     StringValue(<<"a", "@", ".", "c">>),
     StringValue(<<"a", ".", "b", "@", "c", ".", "d", ".", "e">>),
     NumberValue(<<"5">>),
     NumberValue(<<"0">>),
     ObjectValue(<<"{", "}">>)}

PhoneValues ==
    {UndefinedValue,
     StringValue(<<"+", "9", "1", " ", "2", "2", "-", "4", "0">>),
     StringValue(<<"(", "0", "2", "2", ")", "4">>),
     StringValue(<<"c", "a", "l", "l">>),
     NumberValue(<<"9", "8", "2", "0">>),
     NumberValue(<<"0">>),
     ObjectValue(<<"{", "}">>)}

ValidationRules ==
    [required_fields : {<<>>, <<"email">>},
     email_validation : BOOLEAN, phone_validation : BOOLEAN]

ValidateCall(sugarcrmRecord, validationRules) ==
    [fn |-> "validateTransformedRecord", pc |-> "required_fields",
     sugarcrmRecord |-> sugarcrmRecord,
     record |-> [email |-> directValue(sugarcrmRecord.email1),
                 phone |-> directValue(sugarcrmRecord.phone_office)],
     validationRules |-> validationRules,
     existingErrors |-> <<>>, isValid |-> TRUE]

EnterValidate ==
    /\ call = NoLibCall
    /\ \E email1 \in EmailValues, phone_office \in PhoneValues,
          validationRules \in ValidationRules :
        call' = ValidateCall([email1 |-> email1, phone_office |-> phone_office],
                             validationRules)
    /\ UNCHANGED <<store, now, source, run, runsStarted, faultsLeft, overlap, admin>>

\* The required_fields loop (at most the field email here).
CheckRequiredFields ==
    /\ call.fn = "validateTransformedRecord" /\ call.pc = "required_fields"
    /\ LET missing == /\ call.validationRules.required_fields # <<>>
                      /\ ~truthy(call.record.email)
       IN call' = [call EXCEPT
                    !.existingErrors =
                        IF missing THEN Append(@, MissingField("email")) ELSE @,
                    !.isValid = IF missing THEN FALSE ELSE @,
                    !.pc = "email_validation"]
    /\ UNCHANGED <<store, now, source, run, runsStarted, faultsLeft, overlap, admin>>

CheckEmail ==
    /\ call.fn = "validateTransformedRecord" /\ call.pc = "email_validation"
    /\ LET failed == /\ call.validationRules.email_validation
                     /\ truthy(call.record.email)
                     /\ ~emailRegexTest(emailString(call.record.email))
       IN call' = [call EXCEPT
                    !.existingErrors =
                        IF failed
                        THEN Append(@, InvalidEmail(emailString(call.record.email)))
                        ELSE @,
                    !.isValid = IF failed THEN FALSE ELSE @,
                    !.pc = "phone_validation"]
    /\ UNCHANGED <<store, now, source, run, runsStarted, faultsLeft, overlap, admin>>

\* A phone that is not a string has no replace method: the call raises a
\* TypeError.
CheckPhone ==
    /\ call.fn = "validateTransformedRecord" /\ call.pc = "phone_validation"
    /\ LET checked == /\ call.validationRules.phone_validation
                      /\ truthy(call.record.phone)
       IN IF checked /\ ~hasReplace(call.record.phone)
          THEN call' = [call EXCEPT !.pc = "raised"]
          ELSE LET failed == checked /\ ~phoneRegexTest(stripPhone(call.record.phone.chars))
               IN call' = [call EXCEPT
                    !.existingErrors =
                        IF failed THEN Append(@, InvalidPhone(call.record.phone.chars))
                        ELSE @,
                    !.isValid = IF failed THEN FALSE ELSE @,
                    !.pc = "returned"]
    /\ UNCHANGED <<store, now, source, run, runsStarted, faultsLeft, overlap, admin>>

NextValidate ==
    \/ EnterValidate
    \/ CheckRequiredFields
    \/ CheckEmail
    \/ CheckPhone

SpecValidate == InitTransform /\ [][NextValidate]_vars

(***************************************************************************)
(* Properties.  A finished run keeps what it saw: .before is the entity's  *)
(* checkpoint when it started, .after the checkpoint when it ended.        *)
(***************************************************************************)
\* A finished run that no other invocation overlapped and whose entity's
\* checkpoint existed when it started.
Completed(s) == Done(s) /\ run[s].solo /\ run[s].before # NullRecord

\* C1: for every task, a run that raises an error leaves the checkpoint's
\* last_sync_at equal to its value before the run.
C1_FailedRunKeepsLastSyncAt ==
    \A s \in Slots :
        (Done(s) /\ run[s].solo /\ run[s].result = "raised")
            => run[s].after.last_sync_at = run[s].before.last_sync_at

\* C2: for every task, after a run that fetched at least one record and whose
\* push returned successfully, the checkpoint has status 'success',
\* last_sync_at equal to the run's timestamp and metadata.records_fetched
\* equal to the number of records fetched.
C2_SuccessfulRunCommits ==
    \A s \in Slots :
        (Completed(s) /\ run[s].faults = 0
            /\ Len(run[s].records) >= 1 /\ run[s].pushOk)
            => /\ run[s].after.status = "success"
               /\ run[s].after.last_sync_at = run[s].ts
               /\ run[s].after.metadata.records_fetched = Len(run[s].records)

\* C3: for every task, a run in which the fetch or the push raises an error
\* ends with the checkpoint updated to status 'failed' with the error's
\* message in metadata, re-raises that same error, and has retried no stage.
C3_ErrorMarksCheckpointFailed ==
    \A s \in Slots :
        (Completed(s) /\ run[s].faults = 1 /\ run[s].error \in {ErrFetch, ErrPush})
            => /\ run[s].after.status = "failed"
               /\ run[s].after.metadata.error_message = run[s].error
               /\ run[s].result = "raised"
               /\ run[s].raised = run[s].error
               /\ run[s].pushes <= 1

\* C4: for every task, a run whose fetch returns zero records pushes nothing
\* and ends committed: status 'success', last_sync_at advanced to the run's
\* current time, no error raised.
C4_EmptyFetchCommits ==
    \A s \in Slots :
        (Completed(s) /\ run[s].faults = 0
            /\ run[s].fetchDone /\ Len(run[s].records) = 0)
            => /\ run[s].pushes = 0
               /\ run[s].result = "ok"
               /\ run[s].after.status = "success"
               /\ run[s].after.last_sync_at = run[s].ts
               /\ run[s].after # run[s].before

\* C5: for every entity, of two fault-free runs of its task in succession
\* (the Source unchanged), the second fetches zero records and pushes nothing.
C5_SecondRunFetchesNothing ==
    \A s1, s2 \in Slots :
        (/\ Completed(s1) /\ Completed(s2)
         /\ run[s1].task = run[s2].task
         /\ run[s2].seq = run[s1].seq + 1
         /\ run[s1].faults = 0 /\ run[s2].faults = 0)
            => Len(run[s2].records) = 0 /\ run[s2].pushes = 0

\* C6: a fault-free Members run that starts from a non-null last_sync_at and
\* fetches 3 records over 2 pages ends with status 'success', last_sync_at
\* equal to the run time, metadata.records_fetched = 3, and raises no error.
C6_MembersEndToEnd ==
    \A s \in Slots :
        (Completed(s) /\ run[s].task = "Members" /\ run[s].faults = 0
            /\ Truthy(run[s].before.last_sync_at)
            /\ Len(run[s].records) = 3 /\ run[s].pages = 2)
            => /\ run[s].result = "ok"
               /\ run[s].after.status = "success"
               /\ run[s].after.last_sync_at = run[s].ts
               /\ run[s].after.metadata.records_fetched = 3

\* C7: while only runs of one entity have been invoked (overlapping or not),
\* no step moves that entity's last_sync_at to an earlier value.
C7_LastSyncAtNeverMovesBack ==
    [][\A t \in Tasks :
        (\A s \in Slots : run[s].task \in {"none", t})
            => getSyncRecord(store', t).last_sync_at
                    >= getSyncRecord(store, t).last_sync_at]_vars

\* C8: after any sequence of create, update, delete and resetAll calls from
\* an empty store, no identifier resolves to more than one checkpoint.
C8_IdentifierResolvesOnce ==
    \A i \in Names :
        Cardinality({k \in DOMAIN store : Resolves(store[k], i)}) <= 1

\* C9: the save step of updateSyncRecord replaces the whole stored document by
\* the document the run loaded and edited, whatever was saved in between
\* (last writer wins), so an overlapping run's update can be lost.
C9_LastWriterWins ==
    [][\A s \in Slots :
        (~run[s].saved /\ run'[s].saved) => store' = run[s].doc]_vars

\* Two overlapping runs of different entities have both saved their update,
\* and the first one's checkpoint is back at its pre-run value.
C9_UpdateLost ==
    \E s1, s2 \in Slots :
        /\ Done(s1) /\ Done(s2)
        /\ run[s1].task # run[s2].task
        /\ run[s1].saved /\ run[s2].saved
        /\ run[s1].after # run[s1].before
        /\ getSyncRecord(store, run[s1].task) = run[s1].before

\* C10: for every task, a run whose fetch, transform and push succeeded but
\* whose checkpoint write failed completes without raising an error.
C10_CommitFailureNotRaised ==
    \A s \in Slots :
        (Done(s) /\ run[s].solo /\ run[s].pushOk /\ run[s].commitFailed)
            => run[s].result = "ok"

\* C11: in every task's transform stage a record whose transformation raises
\* is replaced by the fallback entry built from the raw record, processing
\* goes on with the next record, and the returned batch has exactly one entry
\* per fetched record, in fetch order.
C11_OneEntryPerRecordInOrder ==
    (call.fn = "processRecords" /\ call.pc = "returned")
        => /\ Len(call.processedRecords) = Len(call.records)
           /\ \A k \in DOMAIN call.records :
                call.processedRecords[k] =
                    IF call.loads[k]
                    THEN processedEntry(call.task,
                            transformSugarcrmToPortal(call.records[k], TaskMapping).data)
                    ELSE fallbackEntry(call.task, call.records[k])

\* A batch of two different records has been processed, the first one's
\* transformation raised and the second one's did not.
C11_FallbackThenNext ==
    /\ call.fn = "processRecords" /\ call.pc = "returned"
    /\ Len(call.records) = 2
    /\ call.records[1] # call.records[2]
    /\ ~call.loads[1] /\ call.loads[2]
    /\ call.processedRecords[1] = fallbackEntry(call.task, call.records[1])
    /\ call.processedRecords[1] # call.processedRecords[2]

\* C18: when a page request of fetchAllRecords raises, nothing is returned to
\* the task (none of the earlier pages' records), and the task transforms and
\* pushes nothing in that run and ends raising.
C18_FetchErrorAbortsRun ==
    \A s \in Slots :
        run[s].error = ErrFetch
            => /\ ~run[s].fetchDone
               /\ run[s].processed = <<>>
               /\ run[s].pushes = 0
               /\ run[s].pc \in {"failLoad", "failSave", "done"}
               /\ Done(s) => run[s].result = "raised"

\* A run has ended after its second page request failed, the first page's
\* records already accumulated.
C18_SecondPageFailed ==
    \E s \in Slots :
        /\ Done(s) /\ run[s].error = ErrFetch
        /\ run[s].pages = 1 /\ Len(run[s].records) = PageSize
        /\ run[s].result = "raised"

\* C19: createSyncRecord fails with already-exists and leaves the document
\* unchanged whenever a checkpoint already resolves for the supplied module
\* name or integration name; otherwise it appends exactly one record with
\* last_sync_at = null and status 'pending'.
C19_CreateRejectsResolvingNames ==
    [][/\ admin'.outcome = ErrExists => store' = store
       /\ Len(store') = Len(store) + 1
            => LET new == store'[Len(store')] IN
               /\ \A k \in DOMAIN store :
                    /\ ~Resolves(store[k], new.module_name)
                    /\ ~Resolves(store[k], new.integration_name)
               /\ SubSeq(store', 1, Len(store)) = store
               /\ new.last_sync_at = Null
               /\ new.status = "pending"]_vars

\* C20: a successful updateSyncRecord(identifier, partial) changes only the
\* resolved checkpoint; of it, every field partial does not name is unchanged
\* except updated_at, which becomes the current time even when partial
\* supplies one; last_sync_at keeps its value unless partial supplies one.
C20_UpdateFrame ==
    (call.fn = "updateSyncRecord" /\ call.pc = "returned" /\ call.outcome = NoError)
        => LET k == findIndex(call.loaded, call.identifier)
               old == call.loaded[k]
               new == store[k]
               updateData == call.updateData
           IN /\ Len(store) = Len(call.loaded)
              /\ \A j \in DOMAIN store : j # k => store[j] = call.loaded[j]
              /\ new.module_name = old.module_name
              /\ new.integration_name = old.integration_name
              /\ new.direction = old.direction
              /\ new.endpoint = old.endpoint
              /\ updateData.status = UndefinedStr => new.status = old.status
              /\ updateData.metadata = NoMetadata => new.metadata = old.metadata
              /\ new.updated_at = call.t
              /\ updateData.last_sync_at = Undefined
                    => new.last_sync_at = old.last_sync_at
              /\ Truthy(updateData.last_sync_at)
                    => new.last_sync_at = updateData.last_sync_at

\* An update that named only updated_at (an earlier instant) returned: the
\* resolved checkpoint, not the first of the document, carries the time of
\* the call, and there are other checkpoints beside it.
C20_SuppliedUpdatedAtIgnored ==
    /\ call.fn = "updateSyncRecord" /\ call.pc = "returned" /\ call.outcome = NoError
    /\ call.updateData = [NoUpdate EXCEPT !.updated_at = Timeline.prior]
    /\ call.identifier = "sugarcrm_Cases"
    /\ findIndex(store, call.identifier) > 1
    /\ store[findIndex(store, call.identifier)].updated_at = call.t
    /\ call.t > Timeline.prior

\* C21: updateSyncRecord and deleteSyncRecord called with an identifier that
\* resolves to no checkpoint fail with a not-found error and leave the stored
\* document unchanged: no write is pending or performed.
C21_NotFoundLeavesStore ==
    (/\ call.fn \in {"updateSyncRecord", "deleteSyncRecord"}
     /\ call.pc \in {"save", "returned"}
     /\ \A k \in DOMAIN call.loaded : ~Resolves(call.loaded[k], call.identifier))
        => /\ call.pc = "returned"
           /\ call.outcome = ErrNotFound
           /\ store = call.loaded

\* A delete of an identifier no checkpoint of a three-record document
\* carries has returned.
C21_DeleteUnknownReturned ==
    /\ call.fn = "deleteSyncRecord" /\ call.pc = "returned"
    /\ call.identifier = "Portal"
    /\ call.outcome = ErrNotFound
    /\ Len(store) >= 3

\* C22: after a successful deleteSyncRecord(identifier), in any reachable
\* store state, getSyncRecord(identifier) returns not-found, exactly one
\* record was removed, and every other record is unchanged.
C22_DeletedIdentifierNotFound ==
    [][Len(store') = Len(store) - 1
        => /\ admin'.op = "delete" /\ admin'.outcome = NoError
           /\ \E k \in DOMAIN store : store' = splice(store, k)
           /\ getSyncRecord(store', admin'.identifier) = NullRecord]_vars

\* C23: after resetAllSyncRecords, every stored checkpoint has status
\* 'pending' and last_sync_at = null, and the set of checkpoints and their
\* module_name, integration_name, direction and endpoint are unchanged.
C23_ResetAllClearsEveryCheckpoint ==
    (call.fn = "resetAllSyncRecords" /\ call.pc = "returned")
        => /\ Len(store) = Len(call.loaded)
           /\ \A k \in DOMAIN store :
                /\ store[k].status = "pending"
                /\ store[k].last_sync_at = Null
                /\ store[k].module_name = call.loaded[k].module_name
                /\ store[k].integration_name = call.loaded[k].integration_name
                /\ store[k].direction = call.loaded[k].direction
                /\ store[k].endpoint = call.loaded[k].endpoint

\* A reset of a document whose checkpoints had all synced has returned.
C23_SyncedDocumentReset ==
    /\ call.fn = "resetAllSyncRecords" /\ call.pc = "returned"
    /\ Len(call.loaded) >= 3
    /\ \A k \in DOMAIN call.loaded :
        call.loaded[k].status = "success" /\ call.loaded[k].last_sync_at # Null
    /\ store # call.loaded

\* C24: the command `reset <identifier>` leaves the resolved checkpoint with
\* status 'pending' and last_sync_at null, so that the entity's next run adds
\* no modified-since filter.
C24_ResetCommandClearsLastSyncAt ==
    (/\ call.fn = "updateSyncRecord" /\ call.pc = "returned"
     /\ call.outcome = NoError
     /\ call.updateData = resetUpdateData)
        => /\ getSyncRecord(store, call.identifier).status = "pending"
           /\ getSyncRecord(store, call.identifier).last_sync_at = Null

\* C25: a failed Outcome Ledger write never turns a run into a failure: in a
\* run where the push succeeds and every ledger write made while logging the
\* response fails, callPortalAPI returns success and the task commits the
\* checkpoint with status 'success'.
C25_LedgerFailureStillCommits ==
    \A s \in Slots :
        (Completed(s) /\ run[s].ledger = "failed" /\ run[s].pushes = 1
            /\ run[s].error # ErrPush)
            => /\ run[s].pushOk
               /\ run[s].result # "raised"
               /\ run[s].after.status = "success"

Logged == call.fn = "logIntegration" /\ call.pc = "returned"

\* C26: logIntegration never raises: an entry missing log_type, module_name
\* or message yields {success: false, error} with no ledger write attempted,
\* a write that fails yields {success: false, error}, and only a successful
\* write yields success with the new row's id.
C26_LogIntegrationNeverRaises ==
    /\ call.fn = "logIntegration"
        => call.pc \in {"validate", "query", "catch", "returned"}
    /\ Logged =>
        LET logData == call.logData
            missing == \/ logData.log_type = UndefinedStr
                       \/ logData.module_name = UndefinedStr
                       \/ logData.message = UndefinedStr
        IN /\ missing => /\ ~call.result.success
                         /\ call.result.error # UndefinedStr
                         /\ call.queries = 0 /\ call.rows = <<>>
           /\ (call.queries = 1 /\ ~call.dbOk)
                => /\ ~call.result.success
                   /\ call.result.error # UndefinedStr
                   /\ call.rows = <<>>
           /\ call.result.success
                => /\ call.queries = 1 /\ call.dbOk
                   /\ Len(call.rows) = 1
                   /\ call.result.logId = Len(call.rows)
           /\ ~call.result.success => call.result.logId = Null

\* A call with every required field returned after the database refused the
\* insert.
C26_FailedWriteReturned ==
    /\ Logged
    /\ call.logData.log_type = "Info" /\ call.logData.message = "Synced"
    /\ call.queries = 1 /\ ~call.dbOk
    /\ ~call.result.success

\* C27: in logIntegration, a sugar_id or portal_id that is not of well-formed
\* UUID shape is written as null and the entry is still written; a well-formed
\* UUID is written unchanged; the entry is never rejected for an identifier's
\* shape.
C27_MalformedIdsWrittenAsNull ==
    Logged =>
        LET logData == call.logData
            complete == /\ logData.log_type = "Info"
                        /\ logData.module_name = "Members"
                        /\ logData.message = "Synced"
        IN /\ (complete /\ call.dbOk)
                => /\ call.result.success
                   /\ Len(call.rows) = 1
           /\ \A k \in DOMAIN call.rows :
                /\ call.rows[k].sugar_id =
                        IF logData.sugar_id \in WellFormedIds
                        THEN logData.sugar_id ELSE NullId
                /\ call.rows[k].portal_id =
                        IF logData.portal_id \in WellFormedIds
                        THEN logData.portal_id ELSE NullId

\* An entry whose sugar_id is a UUID followed by one more character and whose
\* portal_id is a well-formed UUID was written.
C27_TooLongIdWritten ==
    /\ Logged
    /\ call.logData.sugar_id = Str(uuidOf("a") \o <<"a">>)
    /\ call.logData.portal_id = Str(uuidOf("a"))
    /\ Len(call.rows) = 1
    /\ call.rows[1].sugar_id = NullId
    /\ call.rows[1].portal_id = Str(uuidOf("a"))

C29_ErrorExitsNonZero ==
    (call.fn = "main" /\ call.pc = "exited" /\ call.error # NoError)
        => call.exitCode # 0

\* C30: in every reachable store state, after any sequence of store
\* operations and sync runs, every checkpoint's status is one of 'pending',
\* 'success' or 'failed': no step of a run or of a store operation takes a
\* document whose statuses are all among the three to one with another status.
C30_StatusIsPendingSuccessOrFailed ==
    [][(\A k \in DOMAIN store : store[k].status \in {"pending", "success", "failed"})
        => (\A k \in DOMAIN store' :
                store'[k].status \in {"pending", "success", "failed"})]_vars

Validated == call.fn = "validateTransformedRecord" /\ call.pc = "returned"

\* C31: with a loaded mapping transformSugarcrmToPortal never raises, whatever
\* the source record holds (email or phone values that are not strings
\* included): validation failures only show in isValid and validationErrors.
C31_TransformNeverRaises ==
    ~(call.fn = "validateTransformedRecord" /\ call.pc = "raised")

\* A text of local@domain shape: one "@", no white space, a non-empty local
\* part, and a domain with a "." that has text on both sides.
LocalAtDomain(chars) ==
    LET ats == {i \in 1..Len(chars) : chars[i] = "@"}
    IN  /\ Cardinality(ats) = 1
        /\ \A k \in 1..Len(chars) : chars[k] # " "
        /\ \E i \in ats :
            /\ i > 1
            /\ \E j \in (i + 2)..(Len(chars) - 1) : chars[j] = "."

EmailErrors(errors) ==
    {k \in 1..Len(errors) : errors[k].kind = "Invalid email format"}

\* C33: with email validation enabled, a destination record whose email is of
\* local@domain shape gets no email error, and one whose email is a non-empty
\* text not of that shape gets exactly one email entry in validationErrors
\* and isValid = false.
C33_EmailValidation ==
    (Validated /\ call.validationRules.email_validation
               /\ call.record.email.type = "string" /\ call.record.email.chars # <<>>) =>
        IF LocalAtDomain(call.record.email.chars)
        THEN EmailErrors(call.existingErrors) = {}
        ELSE /\ Cardinality(EmailErrors(call.existingErrors)) = 1
             /\ ~call.isValid

\* "not-an-email" has been validated and carries its single email error.
C33_NotAnEmailRejected ==
    /\ Validated /\ call.validationRules.email_validation
    /\ call.record.email =
        StringValue(<<"n", "o", "t", "-", "a", "n", "-", "e", "m", "a", "i", "l">>)
    /\ call.existingErrors =
        <<InvalidEmail(<<"n", "o", "t", "-", "a", "n", "-", "e", "m", "a", "i", "l">>)>>

\* C34: in every run the stages occur in a fixed order and the push happens
\* at most once: the push is invoked only after the fetch has returned and
\* every fetched record has been transformed, with the whole batch in one
\* call, and the success-path checkpoint update is started only after that
\* call has returned successfully (a run that fetched nothing pushes nothing).
C34_StagesInOrder ==
    \A s \in Slots :
        LET r == run[s] IN
        /\ r.pushes <= 1
        /\ r.pc = "push" => (r.fetchDone /\ r.processed = r.records /\ r.pushes = 0)
        /\ r.pushes = 1 => (r.fetchDone /\ r.pushed = r.records /\ r.records # <<>>)
        /\ (r.pc \in {"commitLoad", "commitSave"} \/ (r.saved /\ r.error = NoError))
            => /\ r.fetchDone
               /\ r.records # <<>> => (r.pushes = 1 /\ r.pushOk)

\* A run has fetched two pages, pushed the batch of both and saved its
\* success-path update.
C34_TwoPagesPushedAndSaved ==
    \E s \in Slots :
        /\ Done(s) /\ run[s].saved /\ run[s].error = NoError
        /\ run[s].pages = 2 /\ Len(run[s].pushed) > PageSize

\* C35: for every sync task, the filter list sent to the Source contains the
\* date_modified >= last_sync_at predicate if and only if the entity's
\* checkpoint exists and its last_sync_at is non-null; the entity's static
\* filters are in the list in both cases.
C35_DateFilterIffLastSyncAt ==
    \A s \in Slots :
        LET r == run[s]
            sent == {r.filters[k] : k \in DOMAIN r.filters}
        IN r.pc = "fetch" =>
            /\ "date_modified" \in sent
                <=> (r.before # NullRecord /\ r.before.last_sync_at \notin {Null, Undefined})
            /\ \A k \in DOMAIN staticFilters(r.task) : staticFilters(r.task)[k] \in sent

\* C36: when every page request is answered, a call of fetchAllRecords
\* eventually stops (it returns on has_more = false or through the circuit
\* breaker, or it raises), whatever the upstream answers.
C36_FetchTerminates ==
    (call.fn = "fetchAllRecords")
        ~> (call.fn = "fetchAllRecords" /\ call.pc \in {"returned", "raised"})

\* C37: the last_sync_at a successful run commits is never later than the
\* time its fetch began, so that a Source record modified while the run is in
\* progress satisfies the next run's modified-since filter.
C37_CommitNotLaterThanFetch ==
    \A s \in Slots :
        (Done(s) /\ run[s].saved /\ run[s].error = NoError)
            => (call.fn = "clock" /\ run[s].ts <= call.fetchBegan)

\* C38: when a sync task's function has completed successfully after its
\* push, its checkpoint update has been persisted, and a failure of that
\* update is observed by the task, never left as an unhandled asynchronous
\* operation.
C38_UpdatePersistedOnCompletion ==
    \A s \in Slots :
        /\ (run[s].result = "ok" /\ run[s].pushOk) => run[s].saved
        /\ ~run[s].unhandled

PortalReturned == call.fn = "callPortalAPI" /\ call.pc = "returned"

Fetching == call.fn = "fetchAllRecords"

\* C15: fetchAllRecords requests pages one at a time: the first request uses
\* offset 0, each later one the next_offset of the previous response, a
\* request is outstanding only when every earlier page was accumulated and
\* its callback completed, and none follows a response with has_more false.
C15_PagesRequestedInSequence ==
    Fetching =>
        /\ \A k \in DOMAIN call.requests :
            IF k = 1 THEN call.requests[k] = 0
            ELSE /\ call.responses[k - 1].has_more
                 /\ call.requests[k] = call.responses[k - 1].next_offset
        /\ Len(call.requests) \in {Len(call.responses), Len(call.responses) + 1}
        /\ call.pc \in {"request", "await"}
            => /\ Len(call.allRecords) = Len(call.responses)
               /\ call.onPage => call.callbacks = Len(call.responses)

\* A third page is being requested, with a callback, after two pages whose
\* next_offset differed from the offset plus the page length.
C15_ThirdRequest ==
    /\ Fetching /\ call.pc = "await" /\ call.onPage
    /\ Len(call.requests) = 3
    /\ call.requests[2] # call.requests[1] + call.responses[1].count
    /\ call.callbacks = 2

\* C16: whatever the upstream answers, the offsets of successive page
\* requests are strictly increasing.
C16_OffsetsStrictlyIncrease ==
    Fetching =>
        \A k \in DOMAIN call.requests :
            k > 1 => call.requests[k] > call.requests[k - 1]

\* C17: once more than 10,000 records are accumulated no further page is
\* requested and fetchAllRecords returns normally with the records
\* accumulated so far, even if the last response said has_more.
C17_CircuitBreakerStops ==
    (Fetching /\ call.totalFetched > FetchLimit)
        => /\ call.pc \in {"onPage", "check", "returned"}
           /\ call.pc = "returned"
                => /\ call.result.records = call.allRecords
                   /\ call.result.total_fetched = call.totalFetched

\* fetchAllRecords has returned more than 10,000 records after a response
\* that declared has_more.
C17_StoppedWithMoreDeclared ==
    /\ Fetching /\ call.pc = "returned"
    /\ call.totalFetched > FetchLimit
    /\ call.responses[Len(call.responses)].has_more
    /\ call.result.records = call.allRecords

\* The transform call has returned.
RECURSIVE recordCount(_)
recordCount(pages) ==
    IF pages = <<>> THEN 0 ELSE Head(pages).count + recordCount(Tail(pages))

\* C40: when fetchAllRecords returns, its records list is the concatenation,
\* in request order, of the records of every page it requested, and
\* total_fetched is the length of that list.
C40_RecordsAreAllPagesInOrder ==
    (Fetching /\ call.pc = "returned") =>
        /\ Len(call.result.records) = Len(call.requests)
        /\ \A k \in DOMAIN call.result.records :
            call.result.records[k] =
                [page |-> k, offset |-> call.requests[k],
                 count |-> call.responses[k].count]
        /\ call.result.total_fetched = recordCount(call.result.records)

\* A call has returned the records of three pages of different sizes.
C40_ThreePagesReturned ==
    /\ Fetching /\ call.pc = "returned"
    /\ Len(call.requests) = MaxPages
    /\ call.responses[1].count # call.responses[2].count
    /\ call.result.total_fetched > 0

Returned == call.fn = "transformSugarcrmToPortal" /\ call.pc = "returned"

\* C12: transformSugarcrmToPortal returns isValid = true only if
\* validationErrors is empty.
C12_ValidOnlyIfNoErrors ==
    (Returned /\ call.result.isValid) => call.result.validationErrors = <<>>

\* C13: when a field mapping is marked required and the source field is
\* missing or empty, the result has isValid = false, a validationErrors entry
\* naming the field, and the field mapping did not set the destination field.
C13_MissingRequiredFieldIsInvalid ==
    Returned =>
        \A k \in DOMAIN call.mapping.field_mappings :
            LET m == call.mapping.field_mappings[k] IN
            (m.required /\ call.sugarcrmRecord[m.sugarcrm_field] \in {UndefinedStr, ""})
                => /\ ~call.result.isValid
                   /\ \E e \in DOMAIN call.result.validationErrors :
                        call.result.validationErrors[e] = MissingRequired(m.sugarcrm_field)
                   /\ call.mapped[m.portal_field] = UndefinedStr

\* C14: after the default_values step every destination field the mapping
\* step set keeps its value (0 included), and every defaulted field the
\* mapping step left unset equals its default.
C14_DefaultsOnlyFillUnset ==
    (call.fn = "transformSugarcrmToPortal" /\ call.pc \in {"computed_fields", "validate"}
        /\ call.i = 1)
        => \A f \in DOMAIN call.data :
            /\ call.mapped[f] # UndefinedStr => call.data[f] = call.mapped[f]
            /\ (call.mapped[f] = UndefinedStr /\ call.mapping.default_values[f] # UndefinedStr)
                    => call.data[f] = call.mapping.default_values[f]

\* C32: a computed field with an unrecognized derivation kind sets no
\* destination field and adds no validation error, and a computed field that
\* copies the destination field `name` leaves its own destination field as it
\* was when `name` is not set.
C32_ComputedFieldEffects ==
    (Returned /\ call.mapping.computed_fields # <<>>) =>
        LET config == call.mapping.computed_fields[1]
            before == applyDefaults(call.mapped, call.mapping.default_values)
        IN  /\ config.transform = "unknown" =>
                call.result = transformResult(
                    [data |-> before, validationErrors |-> call.validationErrors],
                    call.mapping)
            /\ (config.transform = "copy_from_name" /\ before["name"] = UndefinedStr) =>
                call.result.data[config.portal_field] = before[config.portal_field]

====
